---- MODULE Spec2Model ----
(***************************************************************************)
(* The live session orchestrator of the voice tutor (the VoiceSession      *)
(* React component): session start, the elapsed-time timer, pause/resume,  *)
(* the tool-call bridge on the control channel, automatic and manual       *)
(* termination, restart.                                                   *)
(*                                                                         *)
(* React state is modelled in two layers.  The state variables hold the    *)
(* latest value of each useState cell (updates already enqueued count).    *)
(* `rendered` is the snapshot of the last committed render: it is what the *)
(* buttons on screen, the closures of the handlers and the dependency      *)
(* comparison of the effects see.  An update made in a click handler is    *)
(* committed in the same step (React flushes discrete events               *)
(* synchronously, passive effects included); an update made in a timer     *)
(* callback, a data-channel message handler, the continuation of an await  *)
(* or an effect is committed by the separate step Commit.                  *)
(*                                                                         *)
(* Wall-clock time is in milliseconds and is observed at the instants of   *)
(* Instants; the timer callback reads the clock when it runs.              *)
(***************************************************************************)
EXTENDS Integers, Sequences, FiniteSets, TLC

\* ---------------------------------------------------------------- bounds
MaxSessions == 2      \* startSession invocations explored
MaxCalls    == 2      \* output items in one response.done event
MaxCallId   == 2      \* distinct call_id values
MaxLog      == 1      \* entries kept in skillObservationsRef
MaxTurns    == 1      \* response.done events explored
MaxResumeTimers == 2  \* resume timeouts pending at once
MaxBridgeTurns == 5   \* single-call response.done events explored
MaxActivityTurns == 2 \* tool calls explored between pauses and resumes
MaxBridgeLog == 2     \* entries kept in one log in those turns
MaxTranscript == 2    \* transcript entries
MaxDeltas == 2        \* deltas joined in one assistant entry

\* ------------------------------------------------------ program constants
MaxSessionSeconds == 35 * 60     \* auto-end ceiling
RestartWindowSeconds == 5 * 60   \* restart threshold
SelectionDisplayMs == 2500       \* the selection is shown this long
TimeUpdateMs == 5 * 60 * 1000    \* period of the time-remaining broadcast
SessionMinutes == 35             \* minutes a session lasts
MsPerSecond == 1000

\* Wall-clock instants (ms since the page was loaded) at which a step runs.
Instants ==
  { 0, 1500, 2100000, 2400500 }

\* Instants around the five-minute restart threshold: 4m59s and 5m01s.
EarlyInstants ==
  { 0, 299000, 301000 }

\* Instants of a session started at 0 that runs to its last minutes: the
\* broadcast interval expires at 5 and at 30 minutes; 32 minutes is reached
\* by the one-second timer only.
BroadcastInstants ==
  { 0, 300000, 1800000, 1920000 }

\* The seconds after a topic was confirmed, one tick of the timer apart.
SelectorInstants ==
  { 0, 1000, 2000, 3000, 4000 }

TutorialPhase ==
  { "warm_entry", "diagnostic", "scaffolding", "deepening", "transfer",
    "reflection" }

SessionStatus ==
  { "idle", "connecting", "connected", "paused", "ending", "error" }

ActivityState ==
  { "greeting", "offering_topics", "awaiting_selection", "discussing",
    "reflecting" }

VARIABLES
  \* React state (latest values)
  status, elapsedSeconds, currentPhase, currentActivity, isPaused,
  showRestartConfirm,
  \* last committed render
  rendered,
  \* refs
  isPausedRef, currentActivityRef, dataChannelRef, localStreamRef,
  peerConnectionRef, audioElementRef, sessionIdRef, skillObservationsRef,
  startTimeRef, timerIntervalRef, timeUpdateIntervalRef,
  \* environment and asynchronous work in flight
  now, startPc, startClosure, endFetches, resumeTimers, persisted, sent,
  \* history variables
  sessionNo, autoEnds, autoEndAt, unpausedMs, connectedMs, declaredPhase,
  turnCalls, userActed, endOutcome, turns, assignedId,
  \* topic presentation, side-information logs, transcript
  presentedTopics, selectedTopicOption, showTopicSelector, openLoopsRef,
  lessonPlanModsRef, misconceptionsRef, visuals, transcript,
  \* lesson-plan requests in flight
  lessonPlanFetches,
  \* history variables of the tool-call bridge
  presentedNumbers, parseFailed, selectTitles, lessonPlanRequests,
  resumeRepaused,
  \* the auto-dismiss timers of the topic selector
  selectorTimer, selectorExit,
  \* the component is mounted
  mounted,
  \* the error state cell, and the error events handled so far (history)
  error, errorLog,
  \* the payload-free frames handled so far (history)
  frameLog,
  \* how far the engine is with each user conversation item (environment)
  itemStage

\* The error cell when no error is set.  setError never stores the empty
\* string (both of its call sites fall back to a text), so the empty
\* sequence of words stands for null.
NoError == << >>

\* The text the catch block of startSession stores.
ConnectError == << "Failed", "to", "connect" >>

\* The fallback text of the error case.
SessionErrorText == << "Session", "error", "occurred" >>

\* The user conversation items of the engine: a typed message (its text is in
\* the item from the start), a spoken one (its transcript is in the item once
\* the item is done) and a typed message that is blank.  A text is named by a
\* number, 0 for a blank one.
UserItems ==
  << [ kind |-> "text", text |-> 1 ],
     [ kind |-> "audio", text |-> 2 ],
     [ kind |-> "text", text |-> 0 ] >>

reactVars == << status, elapsedSeconds, currentPhase, currentActivity,
                isPaused, showRestartConfirm >>
transportVars == << dataChannelRef, localStreamRef, peerConnectionRef,
                    audioElementRef >>
timerVars == << startTimeRef, timerIntervalRef, timeUpdateIntervalRef >>
historyVars == << sessionNo, autoEnds, autoEndAt, unpausedMs, connectedMs,
                  declaredPhase, userActed, turns, assignedId >>
sessionDataVars == << presentedTopics, selectedTopicOption, showTopicSelector,
                      openLoopsRef, lessonPlanModsRef, misconceptionsRef,
                      visuals, transcript, presentedNumbers, parseFailed,
                      selectTitles, lessonPlanRequests >>
selectorVars == << selectorTimer, selectorExit >>
bridgeVars == << sessionDataVars, lessonPlanFetches, resumeRepaused,
                selectorVars, mounted, error, errorLog, frameLog, itemStage >>
vars == << reactVars, rendered, isPausedRef, currentActivityRef,
           transportVars, sessionIdRef, skillObservationsRef, timerVars,
           now, startPc, startClosure, endFetches, resumeTimers, persisted,
           sent, turnCalls, endOutcome, historyVars, bridgeVars >>

\* TopicSelector is mounted and its selectedOption prop is not null: its
\* auto-dismiss effect has a timeout pending.
SelectorShowsSelection ==
  /\ showTopicSelector
  /\ presentedTopics # << >>
  /\ selectedTopicOption # 0

\* VoiceSession rendered again: the onDismiss prop is a new function, so the
\* auto-dismiss effect of TopicSelector is cleaned up (clearTimeout) and run
\* again, which arms a new timeout at this instant.
SelectorRerendered ==
  selectorTimer' = IF SelectorShowsSelection THEN now ELSE -1

\* The render snapshot of the current state.
Snapshot ==
  [ status |-> status, elapsedSeconds |-> elapsedSeconds,
    currentPhase |-> currentPhase, currentActivity |-> currentActivity,
    isPaused |-> isPaused, showRestartConfirm |-> showRestartConfirm ]

NoAutoEnd == [ status |-> "idle", elapsedSeconds |-> 0 ]

Init ==
  /\ status = "idle"
  /\ elapsedSeconds = 0
  /\ currentPhase = "warm_entry"
  /\ currentActivity = "greeting"
  /\ isPaused = FALSE
  /\ showRestartConfirm = FALSE
  /\ rendered = Snapshot
  /\ isPausedRef = FALSE
  /\ currentActivityRef = "greeting"
  /\ dataChannelRef = "null"
  /\ localStreamRef = "null"
  /\ peerConnectionRef = FALSE
  /\ audioElementRef = "null"
  /\ sessionIdRef = 0
  /\ skillObservationsRef = << >>
  /\ startTimeRef = 0
  /\ timerIntervalRef = FALSE
  /\ timeUpdateIntervalRef = FALSE
  /\ now = 0
  /\ startPc = "none"
  /\ startClosure = [ elapsedSeconds |-> 0 ]
  /\ endFetches = 0
  /\ resumeTimers = << >>
  /\ persisted = [ s \in 1..MaxSessions |-> 0 ]
  /\ sent = << >>
  /\ sessionNo = 0
  /\ autoEnds = 0
  /\ autoEndAt = NoAutoEnd
  /\ unpausedMs = 0
  /\ connectedMs = 0
  /\ declaredPhase = "warm_entry"
  /\ turnCalls = << >>
  /\ userActed = FALSE
  /\ endOutcome = "none"
  /\ turns = 0
  /\ assignedId = 0
  /\ presentedTopics = << >>
  /\ selectedTopicOption = 0
  /\ showTopicSelector = FALSE
  /\ openLoopsRef = << >>
  /\ lessonPlanModsRef = << >>
  /\ misconceptionsRef = << >>
  /\ visuals = << >>
  /\ transcript = << >>
  /\ lessonPlanFetches = << >>
  /\ presentedNumbers = {}
  /\ parseFailed = FALSE
  /\ selectTitles = << >>
  /\ lessonPlanRequests = << >>
  /\ resumeRepaused = << >>
  /\ selectorTimer = -1
  /\ selectorExit = FALSE
  /\ mounted = TRUE
  /\ error = NoError
  /\ errorLog = << >>
  /\ frameLog = << >>
  /\ itemStage = [ i \in DOMAIN UserItems |-> "none" ]

\* --------------------------------------------------------------- helpers
Range(f) == { f[i] : i \in DOMAIN f }

Msg(type, callId, text) == [ type |-> type, call_id |-> callId, text |-> text ]

\* stopTimer: both intervals are cleared.
StopTimer ==
  /\ timerIntervalRef' = FALSE
  /\ timeUpdateIntervalRef' = FALSE

\* cleanup without its call of stopTimer().
CleanupKeepsTimers ==
  /\ dataChannelRef' = "null"
  /\ localStreamRef' = "null"
  /\ peerConnectionRef' = FALSE
  /\ audioElementRef' = "null"
  /\ UNCHANGED << timerIntervalRef, timeUpdateIntervalRef >>

\* cleanup: every transport resource is released, then stopTimer().
Cleanup ==
  /\ dataChannelRef' = "null"
  /\ localStreamRef' = "null"
  /\ peerConnectionRef' = FALSE
  /\ audioElementRef' = "null"
  /\ StopTimer

\* endSession up to its await (or to its end when nothing is awaited):
\* setStatus('ending'), cleanup(), then the submission if sessionIdRef is set.
\* Without a sessionId nothing is awaited and the reset runs in the same task.
EndSession ==
  /\ Cleanup
  /\ IF sessionIdRef # 0
       THEN /\ status' = "ending"
            /\ elapsedSeconds' = elapsedSeconds
            /\ sessionIdRef' = sessionIdRef
            /\ persisted' = [ persisted EXCEPT ![sessionIdRef] = @ + 1 ]
            /\ endFetches' = endFetches + 1
            /\ endOutcome' = "none"
       ELSE /\ status' = "idle"
            /\ elapsedSeconds' = 0
            /\ sessionIdRef' = 0
            /\ persisted' = persisted
            /\ endFetches' = endFetches
            /\ endOutcome' = "skipped"

\* endSession's continuation without the try/catch around the submission: a
\* rejected fetch ends the function before the reset.
EndFetchSettlesUncaught(outcome) ==
  /\ endFetches > 0
  /\ endFetches' = endFetches - 1
  /\ IF outcome = "failed"
       THEN UNCHANGED << status, elapsedSeconds, sessionIdRef >>
       ELSE /\ status' = "idle"
            /\ elapsedSeconds' = 0
            /\ sessionIdRef' = 0
  /\ endOutcome' = outcome
  /\ sent' = << >>
  /\ turnCalls' = << >>
  /\ turns' = turns
  /\ assignedId' = assignedId
  /\ UNCHANGED << currentPhase, currentActivity, isPaused, showRestartConfirm,
                  rendered, isPausedRef, currentActivityRef, transportVars,
                  skillObservationsRef, timerVars, now, startPc, startClosure,
                  resumeTimers, persisted, sessionNo, autoEnds, autoEndAt,
                  unpausedMs, connectedMs, declaredPhase, userActed >>
  /\ UNCHANGED bridgeVars

\* The continuation of endSession after the submission settled, either way:
\* a rejected fetch is caught and logged.
EndFetchSettles(outcome) ==
  /\ endFetches > 0
  /\ endFetches' = endFetches - 1
  /\ status' = "idle"
  /\ elapsedSeconds' = 0
  /\ sessionIdRef' = 0
  /\ endOutcome' = outcome
  /\ sent' = << >>
  /\ turnCalls' = << >>
  /\ turns' = turns
  /\ assignedId' = assignedId
  /\ UNCHANGED << currentPhase, currentActivity, isPaused, showRestartConfirm,
                  rendered, isPausedRef, currentActivityRef, transportVars,
                  skillObservationsRef, timerVars, now, startPc, startClosure,
                  resumeTimers, persisted, sessionNo, autoEnds, autoEndAt,
                  unpausedMs, connectedMs, declaredPhase, userActed >>
  /\ UNCHANGED bridgeVars

\* The auto-end effect without the status test.
AutoEndDueAnyStatus(prev, cur) ==
  /\ prev.elapsedSeconds # cur.elapsedSeconds \/ prev.status # cur.status
  /\ cur.elapsedSeconds >= MaxSessionSeconds

\* The auto-end effect: it runs after a commit that changed one of its
\* dependencies [elapsedSeconds, status], and ends the session when the
\* committed values satisfy its condition.
AutoEndDue(prev, cur) ==
  /\ prev.elapsedSeconds # cur.elapsedSeconds \/ prev.status # cur.status
  /\ cur.elapsedSeconds >= MaxSessionSeconds
  /\ cur.status = "connected"

\* startSession up to its first await: every state cell and accumulator is
\* reset, and the credential request is issued.  The closure of the render the
\* click happened in is kept: startTimer reads its elapsedSeconds later.
StartSession ==
  /\ startPc = "none"
  /\ sessionNo < MaxSessions
  /\ status' = "connecting"
  /\ elapsedSeconds' = 0
  /\ currentPhase' = "warm_entry"
  /\ currentActivity' = "greeting"
  /\ isPaused' = FALSE
  /\ skillObservationsRef' = << >>
  /\ rendered' = [ rendered EXCEPT !.status = "connecting",
                                   !.elapsedSeconds = 0,
                                   !.currentPhase = "warm_entry",
                                   !.currentActivity = "greeting",
                                   !.isPaused = FALSE,
                                   !.showRestartConfirm = FALSE ]
  /\ isPausedRef' = FALSE
  /\ currentActivityRef' = "greeting"
  /\ startPc' = "create"
  /\ startClosure' = [ elapsedSeconds |-> rendered.elapsedSeconds ]
  /\ sessionNo' = sessionNo + 1
  /\ autoEnds' = 0
  /\ autoEndAt' = NoAutoEnd
  /\ connectedMs' = 0
  /\ unpausedMs' = 0
  /\ declaredPhase' = "warm_entry"
  /\ userActed' = FALSE
  /\ sent' = << >>
  /\ turnCalls' = << >>
  /\ endOutcome' = "none"
  /\ turns' = turns
  /\ assignedId' = 0
  /\ presentedTopics' = << >>
  /\ selectedTopicOption' = 0
  /\ showTopicSelector' = FALSE
  /\ openLoopsRef' = << >>
  /\ lessonPlanModsRef' = << >>
  /\ misconceptionsRef' = << >>
  /\ visuals' = << >>
  /\ transcript' = << >>
  /\ presentedNumbers' = {}
  /\ parseFailed' = FALSE
  /\ selectTitles' = << >>
  /\ lessonPlanRequests' = << >>
  /\ selectorTimer' = -1
  /\ error' = NoError

\* The catch block of startSession without its call of cleanup().
StartFailsKeepsResources ==
  /\ error' = ConnectError
  /\ status' = "error"
  /\ UNCHANGED << transportVars, timerIntervalRef, timeUpdateIntervalRef >>
  /\ startPc' = "none"
  /\ sent' = << >>
  /\ turnCalls' = << >>
  /\ endOutcome' = "none"
  /\ UNCHANGED << elapsedSeconds, currentPhase, currentActivity, isPaused,
                  showRestartConfirm, rendered, isPausedRef,
                  currentActivityRef, sessionIdRef, skillObservationsRef,
                  startTimeRef, now, startClosure, endFetches, resumeTimers,
                  persisted, historyVars >>
  /\ UNCHANGED << sessionDataVars, lessonPlanFetches, resumeRepaused,
                  selectorVars, mounted, errorLog, frameLog, itemStage >>

\* The catch block of startSession: setError, setStatus('error'), cleanup().
StartFails ==
  /\ error' = ConnectError
  /\ status' = "error"
  /\ Cleanup
  /\ startPc' = "none"
  /\ sent' = << >>
  /\ turnCalls' = << >>
  /\ endOutcome' = "none"
  /\ UNCHANGED << elapsedSeconds, currentPhase, currentActivity, isPaused,
                  showRestartConfirm, rendered, isPausedRef,
                  currentActivityRef, sessionIdRef, skillObservationsRef,
                  startTimeRef, now, startClosure, endFetches, resumeTimers,
                  persisted, historyVars >>
  /\ UNCHANGED << sessionDataVars, lessonPlanFetches, resumeRepaused,
                  selectorVars, mounted, errorLog, frameLog, itemStage >>

\* The component is disposed: the cleanup of the unmount effect runs
\* cleanup(), and TopicSelector's effect cleanup clears its timeout.  Fetches
\* in flight, the steps of a running startSession and the timeouts of
\* resumeSession are left as they are.
Unmount ==
  /\ mounted
  /\ mounted' = FALSE
  /\ Cleanup
  /\ selectorTimer' = -1
  /\ sent' = << >>
  /\ turnCalls' = << >>
  /\ endOutcome' = "none"
  /\ UNCHANGED << reactVars, rendered, isPausedRef, currentActivityRef,
                  sessionIdRef, skillObservationsRef, startTimeRef, now,
                  startPc, startClosure, endFetches, resumeTimers, persisted,
                  historyVars >>
  /\ UNCHANGED << sessionDataVars, lessonPlanFetches, resumeRepaused,
                  selectorExit, error, errorLog, frameLog, itemStage >>

\* ----------------------------------------------------------- start flow
\* "Start Tutorial" / "Try Again".
ClickStart ==
  /\ mounted
  /\ rendered.status \in { "idle", "error" }
  /\ ~rendered.showRestartConfirm
  /\ StartSession
  /\ UNCHANGED << showRestartConfirm, transportVars, sessionIdRef, timerVars,
                  now, endFetches, resumeTimers, persisted >>
  /\ UNCHANGED << lessonPlanFetches, resumeRepaused, selectorExit, mounted,
                  errorLog, frameLog, itemStage >>

\* The credential response: the server answers with a session id, or with
\* sessionId null when the session row could not be created.
StartCredentialOk ==
  /\ startPc = "create"
  /\ \E id \in { 0, sessionNo } :
        /\ sessionIdRef' = id
        /\ assignedId' = id
  /\ startPc' = "media"
  /\ sent' = << >>
  /\ turnCalls' = << >>
  /\ endOutcome' = "none"
  /\ UNCHANGED << reactVars, rendered, isPausedRef, currentActivityRef,
                  transportVars, skillObservationsRef, timerVars, now,
                  startClosure, endFetches, resumeTimers, persisted,
                  sessionNo, autoEnds, autoEndAt, unpausedMs, connectedMs,
                  declaredPhase, userActed, turns >>
  /\ UNCHANGED bridgeVars

StartCredentialFails ==
  /\ startPc = "create"
  /\ StartFails

\* getUserMedia resolved: stream, peer connection, audio element and data
\* channel are created and the offer is sent.
StartMediaOk ==
  /\ startPc = "media"
  /\ localStreamRef' = "enabled"
  /\ peerConnectionRef' = TRUE
  /\ audioElementRef' = "playing"
  /\ dataChannelRef' = "connecting"
  /\ startPc' = "sdp"
  /\ sent' = << >>
  /\ turnCalls' = << >>
  /\ endOutcome' = "none"
  /\ UNCHANGED << reactVars, rendered, isPausedRef, currentActivityRef,
                  sessionIdRef, skillObservationsRef, timerVars, now,
                  startClosure, endFetches, resumeTimers, persisted,
                  historyVars >>
  /\ UNCHANGED bridgeVars

StartMediaFails ==
  /\ startPc = "media"
  /\ StartFails

\* The SDP answer arrived: setStatus('connected'), startTimer(), and the
\* time-update interval is installed.  startTimer is the callback of the
\* render the start was clicked in, so it reads that render's elapsedSeconds.
StartSdpOk ==
  /\ startPc = "sdp"
  /\ peerConnectionRef      \* on a closed connection the await rejects
  /\ status' = "connected"
  /\ startTimeRef' = now - startClosure.elapsedSeconds * MsPerSecond
  /\ timerIntervalRef' = TRUE
  /\ timeUpdateIntervalRef' = TRUE
  /\ startPc' = "none"
  /\ unpausedMs' = startClosure.elapsedSeconds * MsPerSecond
  /\ sent' = << >>
  /\ turnCalls' = << >>
  /\ endOutcome' = "none"
  /\ turns' = turns
  /\ assignedId' = assignedId
  /\ UNCHANGED << elapsedSeconds, currentPhase, currentActivity, isPaused,
                  showRestartConfirm, rendered, isPausedRef,
                  currentActivityRef, transportVars, sessionIdRef,
                  skillObservationsRef, now, startClosure, endFetches,
                  resumeTimers, persisted, sessionNo, autoEnds, autoEndAt,
                  connectedMs, declaredPhase, userActed >>
  /\ UNCHANGED bridgeVars

StartSdpFails ==
  /\ startPc = "sdp"
  /\ StartFails

\* dc.onopen: the session configuration is sent.
DataChannelOpens ==
  /\ dataChannelRef = "connecting"
  /\ startPc = "none"
  /\ dataChannelRef' = "open"
  /\ sent' = << Msg("session.update", 0, "config") >>
  /\ turnCalls' = << >>
  /\ endOutcome' = "none"
  /\ UNCHANGED << reactVars, rendered, isPausedRef, currentActivityRef,
                  localStreamRef, peerConnectionRef, audioElementRef,
                  sessionIdRef, skillObservationsRef, timerVars, now, startPc,
                  startClosure, endFetches, resumeTimers, persisted,
                  historyVars >>
  /\ UNCHANGED bridgeVars

\* The remote side closes the control channel.
DataChannelCloses ==
  /\ dataChannelRef = "open"
  /\ dataChannelRef' = "closed"
  /\ sent' = << >>
  /\ turnCalls' = << >>
  /\ endOutcome' = "none"
  /\ UNCHANGED << reactVars, rendered, isPausedRef, currentActivityRef,
                  localStreamRef, peerConnectionRef, audioElementRef,
                  sessionIdRef, skillObservationsRef, timerVars, now, startPc,
                  startClosure, endFetches, resumeTimers, persisted,
                  historyVars >>
  /\ UNCHANGED bridgeVars

\* ------------------------------------------------------------------ time
ClockAdvances(t) ==
  /\ t \in Instants \cup EarlyInstants \cup BroadcastInstants
         \cup SelectorInstants
  /\ t > now
  /\ now' = t
  /\ unpausedMs' = IF status # "paused" THEN unpausedMs + (t - now)
                                        ELSE unpausedMs
  /\ connectedMs' = IF status = "connected" THEN connectedMs + (t - now)
                                            ELSE connectedMs

\* The interval callback without the isPausedRef test.
TimerTickIgnoresPause(t) ==
  /\ timerIntervalRef
  /\ ClockAdvances(t)
  /\ elapsedSeconds' = (t - startTimeRef) \div MsPerSecond
  /\ sent' = << >>
  /\ turnCalls' = << >>
  /\ endOutcome' = "none"
  /\ turns' = turns
  /\ assignedId' = assignedId
  /\ UNCHANGED << status, currentPhase, currentActivity, isPaused,
                  showRestartConfirm, rendered, isPausedRef,
                  currentActivityRef, transportVars, sessionIdRef,
                  skillObservationsRef, timerVars, startPc, startClosure,
                  endFetches, resumeTimers, persisted, sessionNo, autoEnds,
                  autoEndAt, declaredPhase, userActed >>
  /\ UNCHANGED bridgeVars

\* The one-second interval callback installed by startTimer, running at
\* instant t.
TimerTick(t) ==
  /\ timerIntervalRef
  /\ ClockAdvances(t)
  /\ elapsedSeconds' = IF ~isPausedRef THEN (t - startTimeRef) \div MsPerSecond
                                       ELSE elapsedSeconds
  /\ sent' = << >>
  /\ turnCalls' = << >>
  /\ endOutcome' = "none"
  /\ turns' = turns
  /\ assignedId' = assignedId
  /\ UNCHANGED << status, currentPhase, currentActivity, isPaused,
                  showRestartConfirm, rendered, isPausedRef,
                  currentActivityRef, transportVars, sessionIdRef,
                  skillObservationsRef, timerVars, startPc, startClosure,
                  endFetches, resumeTimers, persisted, sessionNo, autoEnds,
                  autoEndAt, declaredPhase, userActed >>
  /\ UNCHANGED bridgeVars

\* Time passes while no interval is installed.
TimePasses(t) ==
  /\ ~timerIntervalRef
  /\ ClockAdvances(t)
  /\ sent' = << >>
  /\ turnCalls' = << >>
  /\ endOutcome' = "none"
  /\ turns' = turns
  /\ assignedId' = assignedId
  /\ UNCHANGED << reactVars, rendered, isPausedRef, currentActivityRef,
                  transportVars, sessionIdRef, skillObservationsRef,
                  timerVars, startPc, startClosure, endFetches, resumeTimers,
                  persisted, sessionNo, autoEnds, autoEndAt, declaredPhase,
                  userActed >>
  /\ UNCHANGED bridgeVars

\* ------------------------------------------------- time-remaining broadcast
Digit == << "0", "1", "2", "3", "4", "5", "6", "7", "8", "9" >>

\* The decimal numeral of a number below 100, as a template literal prints it.
Decimal(n) ==
  IF n < 10 THEN Digit[n + 1]
            ELSE Digit[(n \div 10) + 1] \o Digit[(n % 10) + 1]

\* The instruction text sendTimeUpdate builds for `remaining` minutes.
TimeInstruction(remaining) ==
  "[TIME UPDATE: " \o Decimal(remaining) \o " minutes remaining]"
    \o (IF remaining <= 5 THEN " BEGIN WRAP-UP" ELSE "")
    \o (IF remaining <= 3 THEN " FINAL MINUTES" ELSE "")

\* Math.max(0, 35 - Math.floor(elapsed / 60)).
MinutesRemaining(elapsed) ==
  IF SessionMinutes - (elapsed \div 60) < 0 THEN 0
  ELSE SessionMinutes - (elapsed \div 60)

\* The instant at which startSession installed the two intervals.
IntervalsInstalledAt == startTimeRef + startClosure.elapsedSeconds * MsPerSecond

\* The broadcast callback without the test of isPausedRef.
TimeUpdateTickIgnoresPause ==
  /\ timeUpdateIntervalRef
  /\ now > IntervalsInstalledAt
  /\ (now - IntervalsInstalledAt) % TimeUpdateMs = 0
  /\ sent' = IF dataChannelRef = "open"
               THEN << Msg("session.update", 0,
                           TimeInstruction(
                             MinutesRemaining(startClosure.elapsedSeconds))) >>
               ELSE << >>
  /\ turnCalls' = << >>
  /\ endOutcome' = "none"
  /\ UNCHANGED << reactVars, rendered, isPausedRef, currentActivityRef,
                  transportVars, sessionIdRef, skillObservationsRef,
                  timerVars, now, startPc, startClosure, endFetches,
                  resumeTimers, persisted, historyVars >>
  /\ UNCHANGED bridgeVars

\* The broadcast interval expires: the callback runs the sendTimeUpdate of
\* the render in which startSession was invoked, whose elapsedSeconds is the
\* one held in startClosure.  The one-second timer, installed before it, has
\* already run at this instant.
TimeUpdateTick ==
  /\ timeUpdateIntervalRef
  /\ now > IntervalsInstalledAt
  /\ (now - IntervalsInstalledAt) % TimeUpdateMs = 0
  /\ sent' = IF dataChannelRef = "open" /\ ~isPausedRef
               THEN << Msg("session.update", 0,
                           TimeInstruction(
                             MinutesRemaining(startClosure.elapsedSeconds))) >>
               ELSE << >>
  /\ turnCalls' = << >>
  /\ endOutcome' = "none"
  /\ UNCHANGED << reactVars, rendered, isPausedRef, currentActivityRef,
                  transportVars, sessionIdRef, skillObservationsRef,
                  timerVars, now, startPc, startClosure, endFetches,
                  resumeTimers, persisted, historyVars >>
  /\ UNCHANGED bridgeVars

\* ---------------------------------------------------------------- render
\* React commits the pending updates: the ref-sync effects run, and the
\* auto-end effect runs endSession when it is due.
Commit ==
  /\ mounted
  /\ rendered # Snapshot
  /\ rendered' = Snapshot
  /\ isPausedRef' = isPaused
  /\ currentActivityRef' = currentActivity
  /\ sent' = << >>
  /\ turnCalls' = << >>
  /\ turns' = turns
  /\ assignedId' = assignedId
  /\ IF AutoEndDue(rendered, Snapshot)
       THEN /\ EndSession
            /\ autoEnds' = autoEnds + 1
            /\ autoEndAt' = [ status |-> status,
                              elapsedSeconds |-> elapsedSeconds ]
       ELSE /\ endOutcome' = "none"
            /\ UNCHANGED << status, elapsedSeconds, transportVars,
                            sessionIdRef, timerIntervalRef,
                            timeUpdateIntervalRef, endFetches, persisted,
                            autoEnds, autoEndAt >>
  /\ UNCHANGED << currentPhase, currentActivity, isPaused, showRestartConfirm,
                  skillObservationsRef, startTimeRef, now, startPc,
                  startClosure, resumeTimers, sessionNo, unpausedMs,
                  connectedMs, declaredPhase, userActed >>
  /\ UNCHANGED << sessionDataVars, lessonPlanFetches, resumeRepaused,
                  selectorExit, mounted, error, errorLog, frameLog, itemStage >>
  /\ SelectorRerendered

\* ------------------------------------------------------- pause and resume
ControlsVisible ==
  /\ mounted
  /\ rendered.status \in { "connected", "paused" }
  /\ ~rendered.showRestartConfirm      \* the modal overlay covers the page

\* getResumeContext answering with the texts of its default branch.
ResumeContextDefault(activity) ==
  [ context |-> "default", instructions |-> "default" ]

\* getResumeContext: one context sentence and one instruction block per
\* activity value; both are named here by the activity they belong to.
ResumeContext(activity) ==
  [ context |-> activity, instructions |-> activity ]

\* The frames of pauseSession with the two buffer clears sent before the
\* cancellation.
PauseFramesClearFirst ==
  << Msg("output_audio_buffer.clear", 0, ""),
     Msg("input_audio_buffer.clear", 0, ""),
     Msg("response.cancel", 0, "") >>

\* The three frames pauseSession sends, in the order of its send calls.
PauseFrames ==
  << Msg("response.cancel", 0, ""),
     Msg("output_audio_buffer.clear", 0, ""),
     Msg("input_audio_buffer.clear", 0, "") >>

\* pauseSession.
ClickPause ==
  /\ ControlsVisible
  /\ rendered.status = "connected"
  /\ userActed' = TRUE
  /\ turnCalls' = << >>
  /\ endOutcome' = "none"
  /\ turns' = turns
  /\ assignedId' = assignedId
  /\ IF dataChannelRef # "open"
       THEN /\ sent' = << >>
            /\ UNCHANGED << status, isPaused, isPausedRef, rendered,
                            localStreamRef, audioElementRef >>
       ELSE /\ status' = "paused"
            /\ isPaused' = TRUE
            /\ isPausedRef' = TRUE
            /\ rendered' = [ rendered EXCEPT !.status = "paused",
                                             !.isPaused = TRUE ]
            /\ localStreamRef' = IF localStreamRef # "null" THEN "disabled"
                                                            ELSE "null"
            /\ audioElementRef' = IF audioElementRef # "null" THEN "paused"
                                                              ELSE "null"
            /\ sent' = PauseFrames
  /\ UNCHANGED << elapsedSeconds, currentPhase, currentActivity,
                  showRestartConfirm, currentActivityRef, dataChannelRef,
                  peerConnectionRef, sessionIdRef, skillObservationsRef,
                  timerVars, now, startPc, startClosure, endFetches,
                  resumeTimers, persisted, sessionNo, autoEnds, autoEndAt,
                  unpausedMs, connectedMs, declaredPhase >>
  /\ UNCHANGED << sessionDataVars, lessonPlanFetches, selectorExit,
                  mounted, error, errorLog, frameLog, itemStage >>
  /\ IF dataChannelRef = "open" THEN SelectorRerendered
                                ELSE UNCHANGED selectorTimer
  /\ resumeRepaused' = IF dataChannelRef # "open"
                         THEN resumeRepaused
                         ELSE IF resumeRepaused = << >> THEN << >>
                         ELSE [ i \in 1..Len(resumeRepaused) |-> TRUE ]

\* resumeSession.  The click is committed at once, so the auto-end effect
\* runs in the same step when the committed elapsedSeconds is at the ceiling.
ClickResume ==
  /\ ControlsVisible
  /\ rendered.status = "paused"
  /\ Len(resumeTimers) < MaxResumeTimers
  /\ userActed' = TRUE
  /\ turnCalls' = << >>
  /\ turns' = turns
  /\ assignedId' = assignedId
  /\ IF dataChannelRef # "open"
       THEN /\ sent' = << >>
            /\ endOutcome' = "none"
            /\ UNCHANGED << status, elapsedSeconds, isPaused, isPausedRef,
                            rendered, transportVars, sessionIdRef,
                            timerIntervalRef, timeUpdateIntervalRef,
                            endFetches, resumeTimers, persisted, autoEnds,
                            autoEndAt >>
       ELSE LET cur == [ rendered EXCEPT !.status = "connected",
                                         !.isPaused = FALSE ]
            IN  /\ sent' = << Msg("conversation.item.create", 0,
                                  ResumeContext(currentActivityRef).context) >>
                /\ resumeTimers' =
                     Append(resumeTimers,
                            ResumeContext(currentActivityRef).instructions)
                /\ isPaused' = FALSE
                /\ isPausedRef' = FALSE
                /\ rendered' = cur
                /\ IF AutoEndDue(rendered, cur)
                     THEN /\ EndSession
                          /\ autoEnds' = autoEnds + 1
                          /\ autoEndAt' =
                               [ status |-> cur.status,
                                 elapsedSeconds |-> cur.elapsedSeconds ]
                     ELSE /\ status' = "connected"
                          /\ endOutcome' = "none"
                          /\ localStreamRef' =
                               IF localStreamRef # "null" THEN "enabled"
                                                          ELSE "null"
                          /\ audioElementRef' =
                               IF audioElementRef # "null" THEN "playing"
                                                           ELSE "null"
                          /\ UNCHANGED << elapsedSeconds, dataChannelRef,
                                          peerConnectionRef, sessionIdRef,
                                          timerIntervalRef,
                                          timeUpdateIntervalRef, endFetches,
                                          persisted, autoEnds, autoEndAt >>
  /\ UNCHANGED << currentPhase, currentActivity, showRestartConfirm,
                  currentActivityRef, skillObservationsRef, startTimeRef, now,
                  startPc, startClosure, sessionNo, unpausedMs, connectedMs,
                  declaredPhase >>
  /\ UNCHANGED << sessionDataVars, lessonPlanFetches, selectorExit,
                  mounted, error, errorLog, frameLog, itemStage >>
  /\ IF dataChannelRef = "open" THEN SelectorRerendered
                                ELSE UNCHANGED selectorTimer
  /\ resumeRepaused' = IF dataChannelRef # "open"
                         THEN resumeRepaused
                         ELSE Append(resumeRepaused, FALSE)

\* The 200 ms timeout armed by resumeSession.
ResumeTimerFires ==
  /\ resumeTimers # << >>
  /\ resumeTimers' = Tail(resumeTimers)
  /\ sent' = IF dataChannelRef = "open" /\ ~isPausedRef
               THEN << Msg("response.create", 0, Head(resumeTimers)) >>
               ELSE << >>
  /\ turnCalls' = << >>
  /\ endOutcome' = "none"
  /\ UNCHANGED << reactVars, rendered, isPausedRef, currentActivityRef,
                  transportVars, sessionIdRef, skillObservationsRef,
                  timerVars, now, startPc, startClosure, endFetches,
                  persisted, historyVars >>
  /\ UNCHANGED << sessionDataVars, lessonPlanFetches, selectorVars,
                  mounted, error, errorLog, frameLog, itemStage >>
  /\ resumeRepaused' = Tail(resumeRepaused)

\* ------------------------------------------------------ end and restart
\* "End Tutorial": endSession of the current render.
ClickEnd ==
  /\ ControlsVisible
  /\ EndSession
  /\ rendered' = [ rendered EXCEPT !.status = status',
                                   !.elapsedSeconds =
                                      IF sessionIdRef # 0 THEN @ ELSE 0 ]
  /\ userActed' = TRUE
  /\ sent' = << >>
  /\ turnCalls' = << >>
  /\ turns' = turns
  /\ assignedId' = assignedId
  /\ UNCHANGED << currentPhase, currentActivity, isPaused, showRestartConfirm,
                  isPausedRef, currentActivityRef, skillObservationsRef,
                  startTimeRef, now, startPc, startClosure, resumeTimers,
                  sessionNo, autoEnds, autoEndAt, unpausedMs, connectedMs,
                  declaredPhase >>
  /\ UNCHANGED << sessionDataVars, lessonPlanFetches, resumeRepaused,
                  selectorExit, mounted, error, errorLog, frameLog, itemStage >>
  /\ SelectorRerendered

EndFetchResolves == EndFetchSettles("saved")

EndFetchRejects == EndFetchSettles("failed")

\* confirmRestart: the button is rendered, and the handler opens the dialog,
\* only while the rendered elapsedSeconds is within the restart window.
\* The confirmation dialog, whose Restart button runs executeRestart, is
\* rendered whenever showRestartConfirm is set.
RestartDialogShown == rendered.showRestartConfirm

ClickConfirmRestart ==
  /\ ControlsVisible
  /\ rendered.elapsedSeconds <= RestartWindowSeconds
  /\ showRestartConfirm' = TRUE
  /\ rendered' = [ rendered EXCEPT !.showRestartConfirm = TRUE ]
  /\ userActed' = TRUE
  /\ sent' = << >>
  /\ turnCalls' = << >>
  /\ endOutcome' = "none"
  /\ turns' = turns
  /\ assignedId' = assignedId
  /\ UNCHANGED << status, elapsedSeconds, currentPhase, currentActivity,
                  isPaused, isPausedRef, currentActivityRef, transportVars,
                  sessionIdRef, skillObservationsRef, timerVars, now, startPc,
                  startClosure, endFetches, resumeTimers, persisted,
                  sessionNo, autoEnds, autoEndAt, unpausedMs, connectedMs,
                  declaredPhase >>
  /\ UNCHANGED << sessionDataVars, lessonPlanFetches, resumeRepaused,
                  selectorExit, mounted, error, errorLog, frameLog, itemStage >>
  /\ SelectorRerendered

ClickCancelRestart ==
  /\ mounted
  /\ rendered.showRestartConfirm
  /\ showRestartConfirm' = FALSE
  /\ rendered' = [ rendered EXCEPT !.showRestartConfirm = FALSE ]
  /\ userActed' = TRUE
  /\ sent' = << >>
  /\ turnCalls' = << >>
  /\ endOutcome' = "none"
  /\ turns' = turns
  /\ assignedId' = assignedId
  /\ UNCHANGED << status, elapsedSeconds, currentPhase, currentActivity,
                  isPaused, isPausedRef, currentActivityRef, transportVars,
                  sessionIdRef, skillObservationsRef, timerVars, now, startPc,
                  startClosure, endFetches, resumeTimers, persisted,
                  sessionNo, autoEnds, autoEndAt, unpausedMs, connectedMs,
                  declaredPhase >>
  /\ UNCHANGED << sessionDataVars, lessonPlanFetches, resumeRepaused,
                  selectorExit, mounted, error, errorLog, frameLog, itemStage >>
  /\ SelectorRerendered

\* executeRestart: the dialog closes, cleanup(), then startSession().
ClickExecuteRestart ==
  /\ mounted
  /\ rendered.showRestartConfirm
  /\ showRestartConfirm' = FALSE
  /\ Cleanup
  /\ StartSession
  /\ UNCHANGED << sessionIdRef, startTimeRef, now, endFetches, resumeTimers,
                  persisted >>
  /\ UNCHANGED << lessonPlanFetches, resumeRepaused, selectorExit, mounted,
                  errorLog, frameLog, itemStage >>

\* ------------------------------------------------------ tool-call bridge
\* The tools whose calls are explored in the turns of Spec.
ToolNames == { "transition_phase", "log_skill_observation" }

\* The four tools that append to a side-information log held in a ref.
LogToolNames ==
  { "log_skill_observation", "create_open_loop", "update_lesson_plan",
    "flag_misconception" }

\* Every case of the switch of handleFunctionCall.
BridgeToolNames ==
  LogToolNames \cup
  { "transition_phase", "display_visual", "present_topic_option",
    "confirm_topic_selection", "select_topic" }

\* The phase field of a transition_phase argument object; "undefined" when
\* the field is absent.
PhaseArgs == { "undefined", "diagnostic", "reflection" }

OptionNumbers == 1..3

TopicTitles == { "A", "B", "C" }

\* The arguments string of a function call: either it is JSON that parses to
\* an object, or JSON.parse throws on it.  Of the object the model keeps the
\* phase field, the option number (option_number / selected_option; 0 when
\* absent, where parseInt gives NaN) and one text field (title, topic_title,
\* or the payload of a log entry; "" when absent).
Args(phase, number, text) ==
  [ wellFormed |-> TRUE, phase |-> phase, number |-> number, text |-> text ]

Unparseable ==
  [ wellFormed |-> FALSE, phase |-> "undefined", number |-> 0, text |-> "" ]

ArgumentStrings(name) ==
  { Unparseable } \cup
  { Args(p, 0, "") :
      p \in IF name = "transition_phase" THEN PhaseArgs ELSE { "undefined" } }

\* The items of response.output: function calls and plain message items.
MessageItem ==
  [ type |-> "message", name |-> "", call_id |-> 0, arguments |-> Unparseable ]

FunctionCall(name, callId, arguments) ==
  [ type |-> "function_call", name |-> name, call_id |-> callId,
    arguments |-> arguments ]

FunctionCallItems ==
  UNION { { FunctionCall(n, c, a) :
              c \in 1..MaxCallId, a \in ArgumentStrings(n) } : n \in ToolNames }

OutputItems == { MessageItem } \cup FunctionCallItems

\* The engine gives every call of a turn its own call_id.
Outputs ==
  { o \in UNION { [ 1..k -> OutputItems ] : k \in 0..MaxCalls } :
      \A i, j \in DOMAIN o :
        (i # j /\ o[i].type = "function_call" /\ o[j].type = "function_call")
          => o[i].call_id # o[j].call_id }

\* The calls explored one per turn in BridgeSpec: the topic tools and
\* transition_phase with the arguments their cases read, and one call whose
\* arguments do not parse.
BridgeCalls ==
  { FunctionCall("transition_phase", 1, Args(p, 0, "")) :
      p \in { "diagnostic", "reflection" } }
  \cup { FunctionCall("present_topic_option", 1, Args("undefined", k, t)) :
           k \in OptionNumbers, t \in TopicTitles }
  \cup { FunctionCall("confirm_topic_selection", 1, Args("undefined", k, "")) :
           k \in OptionNumbers }
  \cup { FunctionCall("select_topic", 1, Args("undefined", 0, t)) :
           t \in { "A", "B" } }
  \cup { FunctionCall("log_skill_observation", 1, Unparseable) }

\* The calls explored one per turn in LogSpec: the tools that append to a
\* side-information log.
LogCalls ==
  { FunctionCall(n, 1, Args("undefined", 0, t)) :
      n \in LogToolNames \cup { "display_visual" }, t \in { "a" } }

\* A call is malformed when its arguments string does not parse or lacks a
\* field its case reads.
Malformed(fc) ==
  \/ ~fc.arguments.wellFormed
  \/ fc.name = "transition_phase" /\ fc.arguments.phase = "undefined"
  \/ fc.name \in { "present_topic_option", "confirm_topic_selection" }
       /\ fc.arguments.number = 0
  \/ fc.name \in LogToolNames \cup { "display_visual", "present_topic_option",
                                    "select_topic" }
       /\ fc.arguments.text = ""

\* The function calls of a turn, in order, as the bridge must answer them.
RECURSIVE CallsOf(_)
CallsOf(outputs) ==
  IF outputs = << >>
    THEN << >>
    ELSE LET o == Head(outputs)
         IN  (IF o.type = "function_call"
                THEN << [ call_id |-> o.call_id,
                          parses |-> o.arguments.wellFormed,
                          malformed |-> Malformed(o),
                          name |-> o.name,
                          number |-> o.arguments.number,
                          text |-> o.arguments.text ] >>
                ELSE << >>) \o CallsOf(Tail(outputs))

\* The present_topic_option updater without the search for an existing entry.
PresentTopicNoDedupe(prev, number, title, t) ==
  Append(prev, [ optionNumber |-> number, title |-> title,
                 isSelected |-> FALSE, timestamp |-> t ])

\* The updater of setPresentedTopics in the present_topic_option case: the
\* list is kept when an entry with the option number exists.  NaN (0 here)
\* is equal to nothing, itself included.
PresentTopic(prev, number, title, t) ==
  IF \E i \in DOMAIN prev : number # 0 /\ prev[i].optionNumber = number
    THEN prev
    ELSE Append(prev, [ optionNumber |-> number, title |-> title,
                        isSelected |-> FALSE, timestamp |-> t ])

\* The confirm_topic_selection updater that marks the chosen entry and keeps
\* the marks of the others.
ConfirmTopicKeepsOthers(prev, number) ==
  IF prev = << >> THEN << >> ELSE
  [ i \in 1..Len(prev) |->
      [ prev[i] EXCEPT !.isSelected =
          (@ \/ (number # 0 /\ prev[i].optionNumber = number)) ] ]

\* The updater of setPresentedTopics in the confirm_topic_selection case.
ConfirmTopic(prev, number) ==
  IF prev = << >> THEN << >> ELSE
  [ i \in 1..Len(prev) |->
      [ prev[i] EXCEPT !.isSelected =
          (number # 0 /\ prev[i].optionNumber = number) ] ]

\* A push that drops an entry equal to one already in the log.
PushEntryDeduped(log, entry) ==
  IF entry \in Range(log) THEN log ELSE Append(log, entry)

\* Array.prototype.push on one of the side-information logs.
PushEntry(log, entry) == Append(log, entry)

LogEntry(fc, t) == [ text |-> fc.arguments.text, timestamp |-> t ]

\* generateLessonPlan that returns before its fetch.
GenerateLessonPlanSkipped(requests, topicTitle) == requests

\* generateLessonPlan: one POST to /api/lesson-plan carrying topicTitle is
\* issued as soon as it is called.
GenerateLessonPlan(requests, topicTitle) == Append(requests, topicTitle)

\* The activity after transition_phase when every phase other than
\* reflection, warm_entry included, sets discussing.
PhaseActivityNoFirstPhaseTest(phase, activity) ==
  IF phase = "reflection" THEN "reflecting" ELSE "discussing"

\* The activity after transition_phase to `phase`: reflecting for reflection,
\* discussing for every other phase but warm_entry, which leaves it.
PhaseActivity(phase, activity) ==
  IF phase = "reflection" THEN "reflecting"
  ELSE IF phase # "warm_entry" THEN "discussing"
  ELSE activity

\* handleFunctionCall on the running result acc of the message handler.
\* JSON.parse comes first: when it throws nothing else of the call runs.
HandleFunctionCall(fc, acc) ==
  IF ~fc.arguments.wellFormed
    THEN [ acc EXCEPT !.threw = TRUE ]
    ELSE
      LET args == fc.arguments
          mutated ==
            CASE fc.name = "transition_phase" ->
                   [ acc EXCEPT
                       !.currentPhase = args.phase,
                       !.currentActivity = PhaseActivity(args.phase, @) ]
              [] fc.name = "log_skill_observation" ->
                   [ acc EXCEPT
                       !.skillObservations =
                          PushEntry(@, LogEntry(fc, acc.now)) ]
              [] fc.name = "create_open_loop" ->
                   [ acc EXCEPT
                       !.openLoops =
                          PushEntry(@, LogEntry(fc, acc.now)) ]
              [] fc.name = "display_visual" ->
                   [ acc EXCEPT
                       !.visuals = Append(@, LogEntry(fc, acc.now)) ]
              [] fc.name = "update_lesson_plan" ->
                   [ acc EXCEPT
                       !.lessonPlanMods =
                          PushEntry(@, LogEntry(fc, acc.now)) ]
              [] fc.name = "flag_misconception" ->
                   [ acc EXCEPT
                       !.misconceptions =
                          PushEntry(@, LogEntry(fc, acc.now)) ]
              [] fc.name = "present_topic_option" ->
                   [ acc EXCEPT
                       !.showTopicSelector = TRUE,
                       !.currentActivity =
                          IF args.number = 3 THEN "awaiting_selection"
                                             ELSE "offering_topics",
                       !.presentedTopics =
                          PresentTopic(@, args.number, args.text, acc.now) ]
              [] fc.name = "confirm_topic_selection" ->
                   [ acc EXCEPT
                       !.selectedTopicOption = args.number,
                       !.presentedTopics = ConfirmTopic(@, args.number) ]
              [] fc.name = "select_topic" ->
                   [ acc EXCEPT
                       !.currentActivity = "discussing",
                       !.lessonRequests =
                          GenerateLessonPlan(@, args.text) ]
              [] OTHER -> acc
      IN  IF acc.channelOpen
            THEN [ mutated EXCEPT
                     !.sent = @ \o << Msg("conversation.item.create",
                                          fc.call_id, "function_call_output"),
                                      Msg("response.create", 0, "") >> ]
            ELSE mutated

\* The response.done branch of handleDataChannelMessage: the loop over
\* response.output, left at the first exception (caught by the outer try).
RECURSIVE ProcessOutputs(_, _)
ProcessOutputs(outputs, acc) ==
  IF outputs = << >> \/ acc.threw
    THEN acc
    ELSE ProcessOutputs(Tail(outputs),
                        IF Head(outputs).type = "function_call"
                          THEN HandleFunctionCall(Head(outputs), acc)
                          ELSE acc)

\* The phase the engine declared last in a turn: the phase argument of the
\* last transition_phase call of the turn that has one, else the previous one.
RECURSIVE DeclaredAfter(_, _)
DeclaredAfter(outputs, declared) ==
  IF outputs = << >>
    THEN declared
    ELSE LET o == Head(outputs)
         IN  DeclaredAfter(Tail(outputs),
               IF /\ o.type = "function_call"
                  /\ o.name = "transition_phase"
                  /\ o.arguments.wellFormed
                 THEN o.arguments.phase
                 ELSE declared)

\* The calls of one tool in a turn whose arguments parse, in order.
ParsedCallsOf(outputs, name) ==
  SelectSeq(outputs, LAMBDA o : /\ o.type = "function_call"
                                /\ o.name = name
                                /\ o.arguments.wellFormed)

TextsOf(calls) == [ i \in 1..Len(calls) |-> calls[i].arguments.text ]

NumLogCalls(outputs) ==
  Cardinality({ i \in DOMAIN outputs :
                  /\ outputs[i].type = "function_call"
                  /\ outputs[i].name = "log_skill_observation" })

\* handleDataChannelMessage on a response.done event with these output
\* items, arriving on the open control channel.
HandleResponseDone(outputs) ==
  /\ dataChannelRef = "open"
  /\ LET r == ProcessOutputs(outputs,
                [ currentPhase |-> currentPhase,
                  currentActivity |-> currentActivity,
                  skillObservations |-> skillObservationsRef,
                  openLoops |-> openLoopsRef,
                  lessonPlanMods |-> lessonPlanModsRef,
                  misconceptions |-> misconceptionsRef,
                  visuals |-> visuals,
                  presentedTopics |-> presentedTopics,
                  selectedTopicOption |-> selectedTopicOption,
                  showTopicSelector |-> showTopicSelector,
                  lessonRequests |-> << >>,
                  now |-> now,
                  sent |-> << >>,
                  threw |-> FALSE,
                  channelOpen |-> dataChannelRef = "open" ])
     IN  /\ currentPhase' = r.currentPhase
         /\ currentActivity' = r.currentActivity
         /\ skillObservationsRef' = r.skillObservations
         /\ openLoopsRef' = r.openLoops
         /\ lessonPlanModsRef' = r.lessonPlanMods
         /\ misconceptionsRef' = r.misconceptions
         /\ visuals' = r.visuals
         /\ presentedTopics' = r.presentedTopics
         /\ selectedTopicOption' = r.selectedTopicOption
         /\ showTopicSelector' = r.showTopicSelector
         /\ lessonPlanRequests' = lessonPlanRequests \o r.lessonRequests
         /\ lessonPlanFetches' =
              lessonPlanFetches \o
                [ i \in 1..Len(r.lessonRequests) |->
                    [ topicTitle |-> r.lessonRequests[i],
                      session |-> sessionNo ] ]
         /\ sent' = r.sent
  /\ turnCalls' = CallsOf(outputs)
  /\ endOutcome' = "none"
  /\ turns' = turns + 1
  /\ assignedId' = assignedId
  /\ declaredPhase' = DeclaredAfter(outputs, declaredPhase)
  /\ presentedNumbers' =
       presentedNumbers \cup
         { c.arguments.number :
             c \in Range(ParsedCallsOf(outputs, "present_topic_option")) }
  /\ parseFailed' =
       (parseFailed \/ \E i \in DOMAIN outputs :
                         /\ outputs[i].type = "function_call"
                         /\ ~outputs[i].arguments.wellFormed)
  /\ selectTitles' =
       selectTitles \o TextsOf(ParsedCallsOf(outputs, "select_topic"))
  /\ transcript' = transcript
  /\ resumeRepaused' = resumeRepaused
  /\ UNCHANGED << selectorVars, mounted, error, errorLog, frameLog, itemStage >>
  /\ UNCHANGED << status, elapsedSeconds, isPaused, showRestartConfirm,
                  rendered, isPausedRef, currentActivityRef, transportVars,
                  sessionIdRef, timerVars, now, startPc, startClosure,
                  endFetches, resumeTimers, persisted, sessionNo, autoEnds,
                  autoEndAt, unpausedMs, connectedMs, userActed >>

\* A response.done event arrives on the open control channel.
ResponseDone(outputs) ==
  /\ dataChannelRef = "open"
  /\ turns < MaxTurns
  /\ Len(skillObservationsRef) + NumLogCalls(outputs) <= MaxLog
  /\ HandleResponseDone(outputs)

\* The log a tool appends to.
LogOf(name) ==
  CASE name = "log_skill_observation" -> skillObservationsRef
    [] name = "create_open_loop" -> openLoopsRef
    [] name = "update_lesson_plan" -> lessonPlanModsRef
    [] name = "flag_misconception" -> misconceptionsRef
    [] name = "display_visual" -> visuals
    [] name = "select_topic" -> lessonPlanRequests
    [] OTHER -> << >>

\* A response.done event that carries one function call.
ToolCallArrives(fc) ==
  /\ dataChannelRef = "open"
  /\ turns < MaxBridgeTurns
  /\ Len(LogOf(fc.name)) < MaxBridgeLog
  /\ HandleResponseDone(<< fc >>)

\* ---------------------------------------------------- topic selector
\* What the steps of TopicSelector leave alone.
SelectorFrame ==
  /\ sent' = << >>
  /\ turnCalls' = << >>
  /\ endOutcome' = "none"
  /\ UNCHANGED << reactVars, rendered, isPausedRef, currentActivityRef,
                  transportVars, sessionIdRef, skillObservationsRef,
                  timerVars, now, startPc, startClosure, endFetches,
                  resumeTimers, persisted, historyVars >>
  /\ UNCHANGED << openLoopsRef, lessonPlanModsRef, misconceptionsRef, visuals,
                  transcript, presentedNumbers, parseFailed, selectTitles,
                  lessonPlanRequests, lessonPlanFetches, resumeRepaused,
                  mounted, error, errorLog, frameLog, itemStage >>

\* The render that first passes a selection to TopicSelector: the
\* auto-dismiss effect arms its 2500 ms timeout.
SelectorRenders ==
  /\ mounted
  /\ SelectorShowsSelection
  /\ selectorTimer = -1
  /\ ~selectorExit
  /\ selectorTimer' = now
  /\ UNCHANGED << presentedTopics, selectedTopicOption, showTopicSelector,
                  selectorExit, mounted, error, errorLog, frameLog, itemStage >>
  /\ SelectorFrame

\* The 2500 ms timeout expires: setIsExiting(true), and onDismiss is
\* scheduled 500 ms later by a timeout that nothing clears.
SelectorTimerFires ==
  /\ selectorTimer # -1
  /\ now >= selectorTimer + SelectionDisplayMs
  /\ selectorTimer' = -1
  /\ selectorExit' = TRUE
  /\ UNCHANGED << presentedTopics, selectedTopicOption, showTopicSelector >>
  /\ SelectorFrame

\* onDismiss: the selector is hidden and the presented topics and the
\* selection are cleared; TopicSelector unmounts.
SelectorExitFires ==
  /\ selectorExit
  /\ selectorExit' = FALSE
  /\ selectorTimer' = -1
  /\ showTopicSelector' = FALSE
  /\ presentedTopics' = << >>
  /\ selectedTopicOption' = 0
  /\ SelectorFrame

\* ------------------------------------------------------- lesson plan
\* What the lesson-plan route can answer: a plan, a body without a plan, or
\* a failure (a response that is not ok, or a rejected fetch).
PlanOutcomes == { "plan", "empty", "failed" }

RemoveAt(seq, i) ==
  [ j \in 1..(Len(seq) - 1) |-> IF j < i THEN seq[j] ELSE seq[j + 1] ]

\* The continuation of generateLessonPlan after its fetch settled: the plan
\* is sent as a session.update on whatever channel dataChannelRef holds at
\* that moment, if it is open.
LessonPlanSettles(i, outcome) ==
  /\ i \in DOMAIN lessonPlanFetches
  /\ lessonPlanFetches' = RemoveAt(lessonPlanFetches, i)
  /\ sent' = IF outcome = "plan" /\ dataChannelRef = "open"
               THEN << Msg("session.update", 0, "lesson_plan") >>
               ELSE << >>
  /\ turnCalls' = << >>
  /\ endOutcome' = "none"
  /\ UNCHANGED << reactVars, rendered, isPausedRef, currentActivityRef,
                  transportVars, sessionIdRef, skillObservationsRef,
                  timerVars, now, startPc, startClosure, endFetches,
                  resumeTimers, persisted, historyVars >>
  /\ UNCHANGED << sessionDataVars, resumeRepaused, selectorVars,
                  mounted, error, errorLog, frameLog, itemStage >>

\* ------------------------------------------------------------ transcript
\* What the transcript handlers leave alone.
TranscriptFrame ==
  /\ sent' = << >>
  /\ turnCalls' = << >>
  /\ endOutcome' = "none"
  /\ UNCHANGED << reactVars, rendered, isPausedRef, currentActivityRef,
                  transportVars, sessionIdRef, skillObservationsRef,
                  timerVars, now, startPc, startClosure, endFetches,
                  resumeTimers, persisted, historyVars >>
  /\ UNCHANGED << presentedTopics, selectedTopicOption, showTopicSelector,
                  openLoopsRef, lessonPlanModsRef, misconceptionsRef, visuals,
                  presentedNumbers, parseFailed, selectTitles,
                  lessonPlanRequests, lessonPlanFetches, resumeRepaused,
                  selectorExit, mounted, error, errorLog, frameLog, itemStage >>
  /\ SelectorRerendered

\* The delta updater without the test of the last entry's role: the delta is
\* joined to whatever entry is last.
AssistantDeltaJoinsAnyEntry ==
  /\ dataChannelRef = "open"
  /\ IF transcript # << >>
       THEN /\ transcript[Len(transcript)].text < MaxDeltas
            /\ transcript' =
                 [ transcript EXCEPT ![Len(transcript)].text = @ + 1 ]
       ELSE /\ Len(transcript) < MaxTranscript
            /\ transcript' =
                 Append(transcript,
                        [ role |-> "assistant", text |-> 1, timestamp |-> now ])
  /\ TranscriptFrame

\* response.output_audio_transcript.delta: the delta extends the last entry
\* when that entry is the assistant's, and opens a new entry otherwise.  The
\* text of an entry is kept as the number of pieces it was built from.
AssistantDelta ==
  /\ dataChannelRef = "open"
  /\ IF transcript # << >> /\ transcript[Len(transcript)].role = "assistant"
       THEN /\ transcript[Len(transcript)].text < MaxDeltas
            /\ transcript' =
                 [ transcript EXCEPT ![Len(transcript)].text = @ + 1 ]
       ELSE /\ Len(transcript) < MaxTranscript
            /\ transcript' =
                 Append(transcript,
                        [ role |-> "assistant", text |-> 1, timestamp |-> now ])
  /\ TranscriptFrame

\* conversation.item.added / conversation.item.done with a user item whose
\* text is not blank: one user entry is appended.
UserItemTranscribed ==
  /\ dataChannelRef = "open"
  /\ Len(transcript) < MaxTranscript
  /\ transcript' =
       Append(transcript, [ role |-> "user", text |-> 1, timestamp |-> now ])
  /\ TranscriptFrame

\* ------------------------------------------------------------------ Next
Next ==
  \/ ClickStart
  \/ StartCredentialOk
  \/ StartCredentialFails
  \/ StartMediaOk
  \/ StartMediaFails
  \/ StartSdpOk
  \/ StartSdpFails
  \/ DataChannelOpens
  \/ DataChannelCloses
  \/ \E t \in Instants : TimerTick(t)
  \/ \E t \in Instants : TimePasses(t)
  \/ Commit
  \/ ClickPause
  \/ ClickResume
  \/ ResumeTimerFires
  \/ ClickEnd
  \/ EndFetchResolves
  \/ EndFetchRejects
  \/ ClickConfirmRestart
  \/ ClickCancelRestart
  \/ ClickExecuteRestart
  \/ \E outputs \in Outputs : ResponseDone(outputs)

Spec == Init /\ [][Next]_vars

\* The session that is never paused or restarted: it is started, time passes,
\* and it is ended by the auto-end effect or by the End button.  React
\* eventually commits a pending update, and a submission eventually settles.
NoPauseNext ==
  \/ ClickStart
  \/ StartCredentialOk
  \/ StartMediaOk
  \/ StartSdpOk
  \/ DataChannelOpens
  \/ \E t \in Instants : TimerTick(t)
  \/ \E t \in Instants : TimePasses(t)
  \/ Commit
  \/ ClickEnd
  \/ EndFetchResolves
  \/ EndFetchRejects

NoPauseSpec ==
  /\ Init
  /\ [][NoPauseNext]_vars
  /\ WF_vars(Commit)
  /\ WF_vars(EndFetchResolves \/ EndFetchRejects)

\* The conversation with the engine: a session is started and the engine's
\* turns carry one tool call each.  No time passes on the clock.
BridgeNext ==
  \/ ClickStart
  \/ StartCredentialOk
  \/ StartMediaOk
  \/ StartSdpOk
  \/ DataChannelOpens
  \/ \E fc \in BridgeCalls : ToolCallArrives(fc)

BridgeSpec == Init /\ [][BridgeNext]_vars

\* Calls that move the activity, the phase and the list of topics.
ActivityCalls ==
  { FunctionCall("present_topic_option", 1, Args("undefined", k, "A")) :
      k \in { 1, 3 } }
  \cup { FunctionCall("select_topic", 1, Args("undefined", 0, "A")),
         FunctionCall("transition_phase", 1, Args("reflection", 0, "")) }

\* The side-information tools: the engine logs observations while the
\* conversation, with its transcript, phase changes and topic offers, goes on.
LogNext ==
  \/ ClickStart
  \/ StartCredentialOk
  \/ StartMediaOk
  \/ StartSdpOk
  \/ DataChannelOpens
  \/ AssistantDelta
  \/ UserItemTranscribed
  \/ \E fc \in LogCalls \cup ActivityCalls : ToolCallArrives(fc)

LogSpec == Init /\ [][LogNext]_vars

\* A session that runs past the broadcast instants, paused and resumed at
\* will.
BroadcastNext ==
  \/ ClickStart
  \/ StartCredentialOk
  \/ StartMediaOk
  \/ StartSdpOk
  \/ DataChannelOpens
  \/ DataChannelCloses
  \/ \E t \in BroadcastInstants : TimerTick(t)
  \/ \E t \in BroadcastInstants : TimePasses(t)
  \/ Commit
  \/ ClickPause
  \/ ClickResume
  \/ ResumeTimerFires
  \/ TimeUpdateTick

BroadcastSpec == Init /\ [][BroadcastNext]_vars

\* A topic is selected and the session is ended or restarted while the
\* lesson-plan request is in flight.
SelectCalls ==
  { FunctionCall("select_topic", 1, Args("undefined", 0, t)) :
      t \in { "A", "B" } }

LessonPlanNext ==
  \/ ClickStart
  \/ StartCredentialOk
  \/ StartMediaOk
  \/ StartSdpOk
  \/ DataChannelOpens
  \/ Commit
  \/ ClickEnd
  \/ EndFetchResolves
  \/ EndFetchRejects
  \/ ClickConfirmRestart
  \/ ClickCancelRestart
  \/ ClickExecuteRestart
  \/ \E fc \in SelectCalls : turns < MaxActivityTurns /\ ToolCallArrives(fc)
  \/ \E i \in 1..MaxActivityTurns, outcome \in PlanOutcomes :
       LessonPlanSettles(i, outcome)

LessonPlanSpec == Init /\ [][LessonPlanNext]_vars

\* A topic is offered and confirmed while the session runs on, second by
\* second, paused and resumed at will.
SelectorCalls ==
  { FunctionCall("present_topic_option", 1, Args("undefined", 1, "A")),
    FunctionCall("confirm_topic_selection", 1, Args("undefined", 1, "")) }

SelectorNext ==
  \/ ClickStart
  \/ StartCredentialOk
  \/ StartMediaOk
  \/ StartSdpOk
  \/ DataChannelOpens
  \/ \E t \in SelectorInstants : TimerTick(t)
  \/ \E t \in SelectorInstants : TimePasses(t)
  \/ Commit
  \/ ClickPause
  \/ ClickResume
  \/ ResumeTimerFires
  \/ \E fc \in SelectorCalls : turns < MaxActivityTurns /\ ToolCallArrives(fc)
  \/ SelectorRenders
  \/ SelectorTimerFires
  \/ SelectorExitFires

SelectorSpec == Init /\ [][SelectorNext]_vars

\* The engine declares phases: the six of TutorialPhase, a name that is none
\* of them, or no phase field at all.
PhaseCalls ==
  { FunctionCall("transition_phase", 1, Args(ph, 0, "")) :
      ph \in { "warm_entry", "diagnostic", "reflection", "undefined",
               "revision" } }

PhaseNext ==
  \/ ClickStart
  \/ StartCredentialOk
  \/ StartMediaOk
  \/ StartSdpOk
  \/ DataChannelOpens
  \/ DataChannelCloses
  \/ Commit
  \/ ClickPause
  \/ ClickResume
  \/ ResumeTimerFires
  \/ \E fc \in PhaseCalls : turns < MaxActivityTurns /\ ToolCallArrives(fc)

PhaseSpec == Init /\ [][PhaseNext]_vars

\* The engine offers topics under any option number: 1 to 3, a number
\* outside that range, or a value parseInt turns into NaN (kept as 0).
AnyOptionNumbers == 0..4

OptionCalls ==
  { FunctionCall("present_topic_option", 1, Args("undefined", k, "A")) :
      k \in AnyOptionNumbers }
  \cup { FunctionCall("confirm_topic_selection", 1, Args("undefined", k, "")) :
           k \in { 1, 4 } }

OptionNext ==
  \/ ClickStart
  \/ StartCredentialOk
  \/ StartMediaOk
  \/ StartSdpOk
  \/ DataChannelOpens
  \/ \E fc \in OptionCalls : ToolCallArrives(fc)

OptionSpec == Init /\ [][OptionNext]_vars

\* Every way out of a session: the End button, the automatic end, a failed
\* start, a restart, and the disposal of the component at any moment.
ExitNext ==
  \/ ClickStart
  \/ StartCredentialOk
  \/ StartCredentialFails
  \/ StartMediaOk
  \/ StartMediaFails
  \/ StartSdpOk
  \/ StartSdpFails
  \/ DataChannelOpens
  \/ \E t \in Instants : TimerTick(t)
  \/ \E t \in Instants : TimePasses(t)
  \/ Commit
  \/ ClickEnd
  \/ EndFetchResolves
  \/ EndFetchRejects
  \/ ClickConfirmRestart
  \/ ClickCancelRestart
  \/ ClickExecuteRestart
  \/ Unmount

ExitSpec == Init /\ [][ExitNext]_vars

\* The body endSession submits to /api/session-end, built by the render
\* `closure` the handler belongs to: the accumulators are read from their
\* refs, duration and phase from the render's state.
SessionEndBody(closure) ==
  [ sessionId |-> sessionIdRef,
    transcript |-> transcript,
    skillObservations |-> skillObservationsRef,
    openLoops |-> openLoopsRef,
    lessonPlanMods |-> lessonPlanModsRef,
    misconceptions |-> misconceptionsRef,
    duration |-> closure.elapsedSeconds,
    phase |-> closure.currentPhase ]

\* The calls of a session in which a topic is offered, confirmed and chosen,
\* and the phase moves on.
ArtifactCalls ==
  { FunctionCall("present_topic_option", 1, Args("undefined", 1, "A")),
    FunctionCall("confirm_topic_selection", 1, Args("undefined", 1, "")),
    FunctionCall("select_topic", 1, Args("undefined", 0, "A")),
    FunctionCall("transition_phase", 1, Args("reflection", 0, "")) }

\* A session with its conversation, ended by the End button.
ArtifactNext ==
  \/ ClickStart
  \/ StartCredentialOk
  \/ StartMediaOk
  \/ StartSdpOk
  \/ DataChannelOpens
  \/ AssistantDelta
  \/ UserItemTranscribed
  \/ \E fc \in ArtifactCalls : ToolCallArrives(fc)
  \/ Commit
  \/ ClickEnd
  \/ EndFetchResolves

ArtifactSpec == Init /\ [][ArtifactNext]_vars

\* ---------------------------------------------------------- error events
MaxErrors == 2

\* String.prototype.includes on a text held as its sequence of words.
Includes(message, word) == \E i \in DOMAIN message : message[i] = word

\* An `error` event of the engine: data.error.message (the empty sequence
\* when it is absent or empty) and data.error.code ("undefined" when absent).
ErrorData(message, code) == [ message |-> message, code |-> code ]

\* The filter of the error case without its test of the code.
IsPauseRelatedNoCode(e) ==
  /\ isPausedRef
  /\ \/ Includes(e.message, "response.cancel")
     \/ Includes(e.message, "audio_buffer.clear")

\* isPauseRelated: the session is paused by the ref, and the message mentions
\* response.cancel or audio_buffer.clear or the code is
\* response_cancel_not_active.
IsPauseRelated(e) ==
  /\ isPausedRef
  /\ \/ Includes(e.message, "response.cancel")
     \/ Includes(e.message, "audio_buffer.clear")
     \/ e.code = "response_cancel_not_active"

\* The error events explored.
ErrorEvents ==
  { ErrorData(m, c) :
      m \in { << >>,
              << "Cancellation", "failed:", "response.cancel" >>,
              << "audio_buffer.clear", "on", "empty", "buffer" >>,
              << "Rate", "limit", "reached" >> },
      c \in { "undefined", "response_cancel_not_active",
              "rate_limit_exceeded" } }

\* handleDataChannelMessage, case 'error': unless the event is pause-related
\* its message, or the fallback text, is stored in the error cell.
ErrorEvent(e) ==
  /\ dataChannelRef = "open"
  /\ Len(errorLog) < MaxErrors
  /\ error' = IF IsPauseRelated(e)
                THEN error
                ELSE IF e.message # << >> THEN e.message ELSE SessionErrorText
  /\ errorLog' = Append(errorLog, [ event |-> e, paused |-> isPaused ])
  /\ sent' = << >>
  /\ turnCalls' = << >>
  /\ endOutcome' = "none"
  /\ UNCHANGED << reactVars, rendered, isPausedRef, currentActivityRef,
                  transportVars, sessionIdRef, skillObservationsRef,
                  timerVars, now, startPc, startClosure, endFetches,
                  resumeTimers, persisted, historyVars >>
  /\ UNCHANGED << sessionDataVars, lessonPlanFetches, resumeRepaused,
                  selectorVars, mounted, frameLog, itemStage >>

\* A session that is paused and resumed while the engine reports errors.
PauseErrorNext ==
  \/ ClickStart
  \/ StartCredentialOk
  \/ StartMediaOk
  \/ StartSdpOk
  \/ DataChannelOpens
  \/ Commit
  \/ ClickPause
  \/ ClickResume
  \/ ResumeTimerFires
  \/ \E e \in ErrorEvents : ErrorEvent(e)

PauseErrorSpec == Init /\ [][PauseErrorNext]_vars

\* ------------------------------------------------------ frame dispatch
MaxFrames == 2

\* An inbound frame without payload: whether event.data decodes as JSON, and
\* its type.
Frame(decodes, type) == [ decodes |-> decodes, type |-> type ]

\* The case labels of the switch on data.type.
CaseLabels ==
  { "session.created", "session.updated", "response.done",
    "response.output_audio_transcript.delta", "conversation.item.added",
    "conversation.item.done", "input_audio_buffer.speech_started",
    "input_audio_buffer.speech_stopped", "error" }

\* The dispatcher with a default branch that treats an unlabelled type as an
\* error event.
DispatchDefaultError(f) ==
  IF ~f.decodes THEN "catch"
  ELSE IF f.type \in CaseLabels THEN f.type ELSE "error"

\* Where handleDataChannelMessage takes a frame: the catch block when
\* JSON.parse throws, the case of its type, or past the switch, which has no
\* default branch.
Dispatch(f) ==
  IF ~f.decodes THEN "catch"
  ELSE IF f.type \in CaseLabels THEN f.type ELSE "none"

\* The payload-free frames explored.
Frames ==
  { Frame(FALSE, "undefined") }
  \cup { Frame(TRUE, t) :
           t \in { "session.created", "rate_limits.updated", "error",
                   "response.done" } }

\* handleDataChannelMessage on a frame that carries nothing but its type.
\* The catch block and the session and speech cases only log; response.done
\* without output and a conversation item without role do nothing; the error
\* case without data.error stores the fallback text (no event without message
\* and code is pause-related).
FrameArrives(f) ==
  /\ dataChannelRef = "open"
  /\ Len(frameLog) < MaxFrames
  /\ frameLog' = Append(frameLog, [ frame |-> f, errors |-> Len(errorLog) ])
  /\ error' = IF Dispatch(f) = "error" THEN SessionErrorText ELSE error
  /\ sent' = << >>
  /\ turnCalls' = << >>
  /\ endOutcome' = "none"
  /\ UNCHANGED << reactVars, rendered, isPausedRef, currentActivityRef,
                  transportVars, sessionIdRef, skillObservationsRef,
                  timerVars, now, startPc, startClosure, endFetches,
                  resumeTimers, persisted, historyVars >>
  /\ UNCHANGED << sessionDataVars, lessonPlanFetches, resumeRepaused,
                  selectorVars, mounted, errorLog, itemStage >>

\* A conversation in which frames of every kind arrive.
FrameNext ==
  \/ ClickStart
  \/ StartCredentialOk
  \/ StartMediaOk
  \/ StartSdpOk
  \/ DataChannelOpens
  \/ AssistantDelta
  \/ UserItemTranscribed
  \/ \E fc \in { FunctionCall("transition_phase", 1,
                                Args("reflection", 0, "")) } :
       turns < 1 /\ ToolCallArrives(fc)
  \/ \E e \in { ErrorData(<< "Rate", "limit", "reached" >>, "undefined") } :
       ErrorEvent(e)
  \/ \E f \in Frames : FrameArrives(f)

FrameSpec == Init /\ [][FrameNext]_vars

\* ---------------------------------------------- lesson-plan generation
\* What generateLessonPlan on the server returns: null, or a plan with its
\* topic (the empty string for a plan that came back without one).
GeneratedPlan(isNull, topic) == [ isNull |-> isNull, topic |-> topic ]

GeneratedPlans ==
  { GeneratedPlan(TRUE, ""), GeneratedPlan(FALSE, ""),
    GeneratedPlan(FALSE, "A") }

\* formatLessonPlanForPrompt: the generic Socratic guidance for a null plan
\* or a plan without topic, and the rendering of the plan otherwise.
FormatLessonPlanForPrompt(plan) ==
  IF plan.isNull \/ plan.topic = ""
    THEN "generic_socratic_guidance"
    ELSE "lesson_plan"

\* POST /api/lesson-plan after generation: a null plan is answered with
\* status 500 and no formattedPlan; a plan is formatted and returned.
LessonPlanRoute(plan) ==
  IF plan.isNull
    THEN [ ok |-> FALSE, formattedPlan |-> "" ]
    ELSE [ ok |-> TRUE, formattedPlan |-> FormatLessonPlanForPrompt(plan) ]

\* The continuation of generateLessonPlan on the route's answer for `plan`:
\* nothing on a response that is not ok; otherwise formattedPlan, if it is
\* not empty, is sent as a session.update on an open channel.
LessonPlanAnswered(i, plan) ==
  /\ i \in DOMAIN lessonPlanFetches
  /\ lessonPlanFetches' = RemoveAt(lessonPlanFetches, i)
  /\ LET response == LessonPlanRoute(plan)
     IN  sent' = IF /\ response.ok
                    /\ dataChannelRef = "open"
                    /\ response.formattedPlan # ""
                   THEN << Msg("session.update", 0, response.formattedPlan) >>
                   ELSE << >>
  /\ turnCalls' = << >>
  /\ endOutcome' = "none"
  /\ UNCHANGED << reactVars, rendered, isPausedRef, currentActivityRef,
                  transportVars, sessionIdRef, skillObservationsRef,
                  timerVars, now, startPc, startClosure, endFetches,
                  resumeTimers, persisted, historyVars >>
  /\ UNCHANGED << sessionDataVars, resumeRepaused, selectorVars,
                  mounted, error, errorLog, frameLog, itemStage >>

\* A session in which topics are selected and the route answers with
\* whatever generation produced; the channel may close meanwhile.
PlanTextNext ==
  \/ ClickStart
  \/ StartCredentialOk
  \/ StartMediaOk
  \/ StartSdpOk
  \/ DataChannelOpens
  \/ DataChannelCloses
  \/ Commit
  \/ ClickPause
  \/ ClickResume
  \/ ResumeTimerFires
  \/ \E fc \in SelectCalls : turns < MaxActivityTurns /\ ToolCallArrives(fc)
  \/ \E i \in 1..MaxActivityTurns, plan \in GeneratedPlans :
       LessonPlanAnswered(i, plan)

PlanTextSpec == Init /\ [][PlanTextNext]_vars

\* Every tool of the bridge, with the arguments that move the activity and
\* with some that must not.
AllToolCalls ==
  { FunctionCall("transition_phase", 1, Args(p, 0, "")) :
      p \in { "warm_entry", "diagnostic", "reflection" } }
  \cup { FunctionCall("present_topic_option", 1, Args("undefined", k, "A")) :
           k \in { 1, 3 } }
  \cup { FunctionCall("confirm_topic_selection", 1, Args("undefined", 1, "")),
         FunctionCall("select_topic", 1, Args("undefined", 0, "A")),
         FunctionCall("log_skill_observation", 1, Args("undefined", 0, "a")) }

\* Sessions in which everything that happens in a session happens: tool
\* calls, a transcript event, a timer tick, pause and resume, end and a new
\* start.
ActivityNext ==
  \/ ClickStart
  \/ StartCredentialOk
  \/ StartMediaOk
  \/ StartSdpOk
  \/ DataChannelOpens
  \/ \E t \in { 1500 } : TimerTick(t)
  \/ Commit
  \/ ClickPause
  \/ ClickResume
  \/ ResumeTimerFires
  \/ ClickEnd
  \/ EndFetchResolves
  \/ Len(transcript) < 1 /\ UserItemTranscribed
  \/ \E fc \in AllToolCalls : turns < MaxActivityTurns /\ ToolCallArrives(fc)

ActivitySpec == Init /\ [][ActivityNext]_vars

\* ------------------------------------------------------- visual panel
\* dismissVisual(index), clicked on the panel of the last committed render:
\* the entry at that render's last position is filtered out of the list.
\* The rendered list may be shorter than the current one, never longer.
DismissVisual(index) ==
  /\ mounted
  /\ index \in DOMAIN visuals
  /\ visuals' = RemoveAt(visuals, index)
  /\ sent' = << >>
  /\ turnCalls' = << >>
  /\ endOutcome' = "none"
  /\ UNCHANGED << reactVars, rendered, isPausedRef, currentActivityRef,
                  transportVars, sessionIdRef, skillObservationsRef,
                  timerVars, now, startPc, startClosure, endFetches,
                  resumeTimers, persisted, historyVars >>
  /\ UNCHANGED << presentedTopics, selectedTopicOption, showTopicSelector,
                  openLoopsRef, lessonPlanModsRef, misconceptionsRef,
                  transcript, presentedNumbers, parseFailed, selectTitles,
                  lessonPlanRequests, lessonPlanFetches, resumeRepaused,
                  selectorVars, mounted, error, errorLog, frameLog, itemStage >>

\* The engine logs side information and shows visuals; the learner closes
\* the visual panel.
VisualNext ==
  \/ ClickStart
  \/ StartCredentialOk
  \/ StartMediaOk
  \/ StartSdpOk
  \/ DataChannelOpens
  \/ \E fc \in LogCalls : ToolCallArrives(fc)
  \/ \E index \in 1..MaxBridgeLog : DismissVisual(index)

VisualSpec == Init /\ [][VisualNext]_vars

\* ------------------------------------------------------------ user items
ItemEventTypes == { "conversation.item.added", "conversation.item.done" }

\* textContent.text || textContent.transcript || '' for the item as the event
\* of this type carries it.
ItemText(type, item) ==
  IF item.kind = "audio" /\ type = "conversation.item.added"
    THEN 0
    ELSE item.text

\* handleDataChannelMessage on conversation.item.added or
\* conversation.item.done for user item i: when the text is not blank a user
\* entry is appended.  The engine sends added once, then done once.
UserItemEvent(type, i) ==
  /\ dataChannelRef = "open"
  /\ i \in DOMAIN UserItems
  /\ itemStage[i] = IF type = "conversation.item.added" THEN "none"
                                                        ELSE "added"
  /\ itemStage' = [ itemStage EXCEPT ![i] =
                      IF type = "conversation.item.added" THEN "added"
                                                          ELSE "done" ]
  /\ LET text == ItemText(type, UserItems[i])
     IN  IF text # 0
           THEN /\ Len(transcript) <= MaxTranscript
                /\ transcript' =
                     Append(transcript,
                            [ role |-> "user", text |-> text,
                              timestamp |-> now ])
           ELSE transcript' = transcript
  /\ sent' = << >>
  /\ turnCalls' = << >>
  /\ endOutcome' = "none"
  /\ UNCHANGED << reactVars, rendered, isPausedRef, currentActivityRef,
                  transportVars, sessionIdRef, skillObservationsRef,
                  timerVars, now, startPc, startClosure, endFetches,
                  resumeTimers, persisted, historyVars >>
  /\ UNCHANGED << presentedTopics, selectedTopicOption, showTopicSelector,
                  openLoopsRef, lessonPlanModsRef, misconceptionsRef, visuals,
                  presentedNumbers, parseFailed, selectTitles,
                  lessonPlanRequests, lessonPlanFetches, resumeRepaused,
                  selectorVars, mounted, error, errorLog, frameLog >>

\* A conversation: the engine reports the user's items and streams its own
\* speech.
UserItemNext ==
  \/ ClickStart
  \/ StartCredentialOk
  \/ StartMediaOk
  \/ StartSdpOk
  \/ DataChannelOpens
  \/ AssistantDelta
  \/ \E type \in ItemEventTypes, i \in DOMAIN UserItems : UserItemEvent(type, i)

UserItemSpec == Init /\ [][UserItemNext]_vars

\* Pausing and resuming at every activity: the engine's calls move the
\* activity, the learner pauses and resumes, the channel may close.
ResumeNext ==
  \/ ClickStart
  \/ StartCredentialOk
  \/ StartMediaOk
  \/ StartSdpOk
  \/ DataChannelOpens
  \/ DataChannelCloses
  \/ Commit
  \/ ClickPause
  \/ ClickResume
  \/ ResumeTimerFires
  \/ \E fc \in ActivityCalls : turns < MaxActivityTurns /\ ToolCallArrives(fc)

ResumeSpec == Init /\ [][ResumeNext]_vars

\* The first minutes of a session: start, the timer around the restart
\* threshold, pause and resume, and the restart controls.
EarlyNext ==
  \/ ClickStart
  \/ StartCredentialOk
  \/ StartMediaOk
  \/ StartSdpOk
  \/ DataChannelOpens
  \/ \E t \in EarlyInstants : TimerTick(t)
  \/ \E t \in EarlyInstants : TimePasses(t)
  \/ Commit
  \/ ClickPause
  \/ ClickResume
  \/ ResumeTimerFires
  \/ ClickConfirmRestart
  \/ ClickCancelRestart
  \/ ClickExecuteRestart

EarlySpec == Init /\ [][EarlyNext]_vars

\* ============================================================ properties
CeilingMs == MaxSessionSeconds * MsPerSecond

InSession(s) == s \in { "connected", "paused" }

AckOf(call) ==
  << Msg("conversation.item.create", call.call_id, "function_call_output"),
     Msg("response.create", 0, "") >>

RECURSIVE ExpectedAcks(_)
ExpectedAcks(calls) ==
  IF calls = << >> THEN << >>
  ELSE AckOf(Head(calls)) \o ExpectedAcks(Tail(calls))

AckCount(id) ==
  Cardinality({ k \in DOMAIN sent :
                  /\ sent[k].type = "conversation.item.create"
                  /\ sent[k].call_id = id })

ContinueCount ==
  Cardinality({ k \in DOMAIN sent : sent[k].type = "response.create" })

\* C1: after a response.done event was processed on the open channel, the
\* frames sent are, for each embedded tool call in turn order, one
\* acknowledgment with that call's call_id followed by one response.create.
C1_EveryCallAcknowledgedInOrder ==
  turnCalls # << >> => sent = ExpectedAcks(turnCalls)

\* C2: in a turn that holds a malformed call (a required field missing, or
\* an argument string that does not parse), every call of the turn, the
\* malformed one included, got exactly one acknowledgment and one continue.
C2_MalformedCallStillAcknowledged ==
  (\E i \in DOMAIN turnCalls : turnCalls[i].malformed)
    => /\ \A i \in DOMAIN turnCalls : AckCount(turnCalls[i].call_id) = 1
       /\ ContinueCount = Len(turnCalls)

\* C3: phase is the phase argument of the most recent transition_phase call
\* the engine made in this session (warm_entry before the first).
C3_PhaseIsLastDeclared ==
  currentPhase = declaredPhase

\* C4: within a session elapsedSeconds never decreases, and a step that
\* starts in status paused and stays in the session leaves it unchanged.
C4_ElapsedMonotoneAndFrozen ==
  [][ /\ (InSession(status) /\ InSession(status') /\ sessionNo' = sessionNo)
          => elapsedSeconds' >= elapsedSeconds
      /\ (status = "paused" /\ InSession(status') /\ sessionNo' = sessionNo)
          => elapsedSeconds' = elapsedSeconds ]_vars

\* C4 witness: the session is paused and the clock has run on past the
\* frozen count, so a tick has fired during the pause.
C4_TickDuringPause ==
  /\ status = "paused"
  /\ timerIntervalRef
  /\ (now - startTimeRef) \div MsPerSecond > elapsedSeconds

\* C5: elapsedSeconds never includes time spent in status paused: it is at
\* most the time since the timer was started that was not spent paused.
C5_PauseTimeExcluded ==
  InSession(status) => elapsedSeconds * MsPerSecond <= unpausedMs

\* C6: automatic termination fires at most once in a session, and only with
\* status connected and elapsedSeconds at or past the ceiling.
C6_AutoEndOnceWhenConnected ==
  /\ autoEnds <= 1
  /\ autoEnds > 0 => /\ autoEndAt.status = "connected"
                     /\ autoEndAt.elapsedSeconds >= MaxSessionSeconds

\* C6 witness: automatic termination has fired in a session that was paused
\* and resumed before.
C6_AutoEndFired ==
  /\ autoEnds = 1
  /\ userActed
  /\ autoEndAt.status = "connected"

\* C7: automatic termination does not fire before the session has spent the
\* ceiling's time in status connected.
C7_CeilingCountsConnectedTime ==
  autoEnds > 0 => connectedMs >= CeilingMs

\* C8: the artifact of a session is submitted at most once.
C8_AtMostOneSubmission ==
  \A s \in 1..MaxSessions : persisted[s] <= 1

\* C9: whenever end() finishes (submission saved, submission failed, or no
\* sessionId and no submission) status is idle, elapsedSeconds is 0 and
\* sessionId is cleared.
C9_EndAlwaysResetsToIdle ==
  endOutcome # "none" => /\ status = "idle"
                         /\ elapsedSeconds = 0
                         /\ sessionIdRef = 0

\* C9 witness: end() has just finished after a failed submission.
C9_EndAfterFailedSubmission ==
  /\ endOutcome = "failed"
  /\ status = "idle"

\* C10: in a session that was assigned a sessionId and is never paused, once
\* the automatic end has been invoked exactly one submission has been
\* attempted for the session, and when no submission is in flight any more
\* status is idle.
C10_ExactlyOneSubmission ==
  (autoEnds = 1 /\ assignedId # 0)
    => /\ persisted[assignedId] = 1
       /\ endFetches = 0 => status = "idle"

\* ---------------------------------------------------- topic presentation
PresentedKeys == { presentedTopics[i].optionNumber : i \in DOMAIN presentedTopics }

SelectedEntries == { i \in DOMAIN presentedTopics : presentedTopics[i].isSelected }

\* The call of the turn just processed, when the turn carried one call.
LastCall == turnCalls[1]

LastCallIs(name) ==
  /\ Len(turnCalls) = 1
  /\ LastCall.name = name
  /\ LastCall.parses

\* C11: after any sequence of present_topic_option calls with numbers from
\* {1,2,3}, repeats included, presentedTopics holds exactly one entry for each
\* distinct number presented, and never more than 3 entries.
C11_OneEntryPerPresentedNumber ==
  /\ PresentedKeys = presentedNumbers
  /\ \A i, j \in DOMAIN presentedTopics :
       i # j => presentedTopics[i].optionNumber # presentedTopics[j].optionNumber
  /\ Len(presentedTopics) <= 3

\* C11 witness: four or more turns, all of them present_topic_option calls
\* (nothing else was touched), so one number was presented twice, and the
\* three options are listed.
C11_RepeatedPresentation ==
  /\ turns >= 4
  /\ Len(presentedTopics) = 3
  /\ selectedTopicOption = 0
  /\ currentPhase = "warm_entry"
  /\ lessonPlanRequests = << >>
  /\ ~parseFailed

\* C12 as stated: after confirm_topic_selection(n) exactly one entry is
\* selected, and it is the entry with key n.
C12_ExactlyOneSelected ==
  LastCallIs("confirm_topic_selection")
    => /\ Cardinality(SelectedEntries) = 1
       /\ \A i \in SelectedEntries :
            presentedTopics[i].optionNumber = LastCall.number

\* C12 amended: after confirm_topic_selection(n) an entry is selected exactly
\* when its key is n: one entry is selected when option n has been presented,
\* none when it has not.
C12_SelectedIffKeyMatches ==
  LastCallIs("confirm_topic_selection")
    => /\ \A i \in DOMAIN presentedTopics :
            presentedTopics[i].isSelected
              <=> presentedTopics[i].optionNumber = LastCall.number
       /\ Cardinality(SelectedEntries) =
            IF LastCall.number \in presentedNumbers THEN 1 ELSE 0

\* C12 witness: a confirmation of one of the three options listed.
C12_ConfirmedAmongThree ==
  /\ LastCallIs("confirm_topic_selection")
  /\ turns >= 4
  /\ Len(presentedTopics) = 3
  /\ Cardinality(SelectedEntries) = 1
  /\ currentPhase = "warm_entry"
  /\ lessonPlanRequests = << >>
  /\ ~parseFailed

\* ------------------------------------------------------- pause and resume
\* A step in which resumeSession ran past its channel test.
ResumeStep ==
  /\ status = "paused"
  /\ isPaused /\ ~isPaused'
  /\ status' # "connecting"

\* A step in which the timeout armed by a resume expired.
ResumeTimerStep == Len(resumeTimers') < Len(resumeTimers)

C14_ContinueOnlyIfNotRepaused ==
  [][ (ResumeTimerStep /\ sent' # << >>)
        => /\ dataChannelRef = "open"
           /\ ~Head(resumeRepaused) ]_vars

\* The state of the session that a handler can change, without the frames
\* it sends.
sessionState ==
  << reactVars, rendered, isPausedRef, currentActivityRef, transportVars,
     sessionIdRef, skillObservationsRef, timerVars, endFetches, resumeTimers,
     presentedTopics, selectedTopicOption, showTopicSelector, openLoopsRef,
     lessonPlanModsRef, misconceptionsRef, visuals, transcript >>

\* C15: pauseSession invoked while the control channel is open sends
\* exactly response.cancel, output_audio_buffer.clear and
\* input_audio_buffer.clear, in that order, and sets status to paused;
\* invoked while the channel is missing or not open it sends nothing and
\* leaves the status and all other session state unchanged.
C15_PauseSendsThreeOrNothing ==
  [][ ClickPause
        => IF dataChannelRef = "open"
             THEN /\ sent' = << Msg("response.cancel", 0, ""),
                                Msg("output_audio_buffer.clear", 0, ""),
                                Msg("input_audio_buffer.clear", 0, "") >>
                  /\ status' = "paused"
             ELSE /\ sent' = << >>
                  /\ UNCHANGED sessionState ]_vars

\* C15 witness: a connected session with an open channel was paused and
\* the three frames were sent.
C15_PausedWithOpenChannel ==
  /\ status = "paused"
  /\ dataChannelRef = "open"
  /\ Len(sent) = 3
  /\ sent[1].type = "response.cancel"

\* C16: while the session is connected or paused, a restart control is
\* available exactly when elapsedSeconds is at most the five-minute
\* threshold: available at 4m59s, unavailable at 5m01s.
C16_RestartAvailableIffEarly ==
  rendered.status \in { "connected", "paused" }
    => ( (ENABLED ClickConfirmRestart \/ RestartDialogShown)
           <=> rendered.elapsedSeconds <= RestartWindowSeconds )

\* ------------------------------------------------------- topic selection
\* A step that processed one select_topic call.
SelectStep ==
  /\ turns' = turns + 1
  /\ Len(turnCalls') = 1
  /\ turnCalls'[1].name = "select_topic"
  /\ turnCalls'[1].parses

\* Four calls have been processed, the last of them confirm_topic_selection(2)
\* and the three before it present_topic_option for 1, 2 and 3.
PresentedThreeConfirmedTwo ==
  /\ turns = 4
  /\ presentedNumbers = { 1, 2, 3 }
  /\ LastCallIs("confirm_topic_selection")
  /\ LastCall.number = 2

\* C17: present_topic_option for 1, 2, 3, then confirm_topic_selection(2),
\* then select_topic(X) ends with 3 presented topics, only entry 2 selected
\* and activity discussing; and every select_topic call issues exactly one
\* lesson-plan request, carrying the title of that call.
C17_SelectIssuesOneRequest ==
  [][ SelectStep
        => /\ lessonPlanRequests' =
                Append(lessonPlanRequests, turnCalls'[1].text)
           /\ currentActivity' = "discussing"
           /\ PresentedThreeConfirmedTwo
                => /\ Len(presentedTopics') = 3
                   /\ \A i \in DOMAIN presentedTopics' :
                        presentedTopics'[i].isSelected
                          <=> presentedTopics'[i].optionNumber = 2
                   /\ lessonPlanRequests' = << turnCalls'[1].text >> ]_vars

\* C17 witness: the end of the scenario, with three distinct titles.
C17_ScenarioCompleted ==
  /\ turns = 5
  /\ LastCallIs("select_topic")
  /\ Len(presentedTopics) = 3
  /\ Cardinality({ presentedTopics[i].title : i \in DOMAIN presentedTopics }) = 3
  /\ selectedTopicOption = 2
  /\ Cardinality(SelectedEntries) = 1
  /\ currentActivity = "discussing"
  /\ lessonPlanRequests = << LastCall.text >>

\* ------------------------------------------------- side-information logs
\* A step that processed one call of the tool `name`.
LogStep(name) ==
  /\ turns' = turns + 1
  /\ Len(turnCalls') = 1
  /\ turnCalls'[1].name = name
  /\ turnCalls'[1].parses

\* The record a log call leaves: the fields of the call and the time.
Logged == [ text |-> turnCalls'[1].text, timestamp |-> now ]

\* What a log call must leave alone besides the other three logs.
logFrame ==
  << transcript, currentPhase, currentActivity, presentedTopics,
     selectedTopicOption, showTopicSelector, visuals, lessonPlanRequests,
     status, elapsedSeconds, isPaused >>

\* C18: each log_skill_observation call appends exactly one record with the
\* fields of the call and a timestamp, repeated calls included, and leaves
\* the transcript, phase, activity, presented topics and every other
\* accumulator unchanged; likewise create_open_loop, update_lesson_plan and
\* flag_misconception, each for its own log.
C18_LogCallAppendsOneRecord ==
  [][ /\ LogStep("log_skill_observation")
        => /\ skillObservationsRef' = Append(skillObservationsRef, Logged)
           /\ UNCHANGED << openLoopsRef, lessonPlanModsRef, misconceptionsRef,
                           logFrame >>
      /\ LogStep("create_open_loop")
        => /\ openLoopsRef' = Append(openLoopsRef, Logged)
           /\ UNCHANGED << skillObservationsRef, lessonPlanModsRef,
                           misconceptionsRef, logFrame >>
      /\ LogStep("update_lesson_plan")
        => /\ lessonPlanModsRef' = Append(lessonPlanModsRef, Logged)
           /\ UNCHANGED << skillObservationsRef, openLoopsRef,
                           misconceptionsRef, logFrame >>
      /\ LogStep("flag_misconception")
        => /\ misconceptionsRef' = Append(misconceptionsRef, Logged)
           /\ UNCHANGED << skillObservationsRef, openLoopsRef,
                           lessonPlanModsRef, logFrame >>
    ]_vars

\* C18 witness: the same observation was logged twice, after the transcript,
\* the activity and the list of topics had got their first entries.
C18_SameObservationTwice ==
  /\ LastCallIs("log_skill_observation")
  /\ Len(skillObservationsRef) = 2
  /\ skillObservationsRef[1] = skillObservationsRef[2]
  /\ transcript # << >>
  /\ presentedTopics # << >>

\* ---------------------------------------------------------------- restart
\* A step in which executeRestart ran.
RestartStep ==
  /\ rendered.showRestartConfirm
  /\ sessionNo' = sessionNo + 1

\* C19: a restart discards all accumulated state: the new session starts in
\* phase warm_entry with activity greeting, an empty transcript, empty
\* accumulators and no presented topics, not paused, and its elapsedSeconds
\* counts up from 0: while the new session has not been paused it never
\* exceeds the time the session has been connected.
C19_RestartStartsFromZero ==
  [][ /\ RestartStep
        => /\ currentPhase' = "warm_entry"
           /\ currentActivity' = "greeting"
           /\ transcript' = << >>
           /\ skillObservationsRef' = << >>
           /\ openLoopsRef' = << >>
           /\ lessonPlanModsRef' = << >>
           /\ misconceptionsRef' = << >>
           /\ visuals' = << >>
           /\ presentedTopics' = << >>
           /\ selectedTopicOption' = 0
           /\ ~isPaused'
           /\ elapsedSeconds' = 0
      /\ (InSession(status') /\ ~userActed')
        => elapsedSeconds' * MsPerSecond <= connectedMs'
    ]_vars

\* ------------------------------------------------ time-remaining broadcast
\* A step in which a time-remaining broadcast was sent.
TimeUpdateStep ==
  /\ Len(sent') = 1
  /\ sent'[1].type = "session.update"
  /\ sent'[1].text # "config"
  /\ UNCHANGED << dataChannelRef, elapsedSeconds >>

\* C20: each time-remaining broadcast states 35 minus the whole minutes of
\* the session's elapsed time at the moment of the broadcast, with the
\* wrap-up text when at most 5 minutes remain and the final-minutes text
\* when at most 3 remain.
C20_BroadcastStatesLiveRemaining ==
  [][ TimeUpdateStep
        => sent'[1].text = TimeInstruction(MinutesRemaining(elapsedSeconds))
    ]_vars

\* ------------------------------------------------------------ transcript
\* A step in which an assistant transcript delta was handled.
DeltaStep ==
  /\ transcript' # transcript
  /\ transcript'[Len(transcript')].role = "assistant"

\* The delta opened a new assistant entry.
DeltaOpensEntry ==
  /\ Len(transcript') = Len(transcript) + 1
  /\ transcript'[Len(transcript')].text = 1

\* C21: an assistant delta extends the last entry only if that entry is the
\* assistant's and no response.done has occurred since; a delta that arrives
\* right after a response.done event, after a user entry or on an empty
\* transcript opens a new assistant entry.
C21_DeltaAfterTurnEndOpensEntry ==
  [][ DeltaStep
        => /\ (transcript = << >>) => DeltaOpensEntry
           /\ (transcript # << >> /\ transcript[Len(transcript)].role = "user")
                => DeltaOpensEntry
           /\ (turnCalls # << >>) => DeltaOpensEntry
           /\ ~DeltaOpensEntry
                => /\ Len(transcript') = Len(transcript)
                   /\ transcript[Len(transcript)].role = "assistant" ]_vars

\* C22: no restart is executed in a state where the elapsedSeconds on screen
\* exceeds the five-minute threshold, also when the confirmation dialog was
\* opened before the threshold and confirmed after it.
C22_NoRestartPastThreshold ==
  [][ RestartStep => rendered.elapsedSeconds <= RestartWindowSeconds ]_vars

\* ------------------------------------------------------------ lesson plan
\* A step in which a lesson-plan request settled and its plan was sent.
PlanInjected(i) ==
  /\ i \in DOMAIN lessonPlanFetches
  /\ lessonPlanFetches' = RemoveAt(lessonPlanFetches, i)
  /\ sent' = << Msg("session.update", 0, "lesson_plan") >>

\* C23: a lesson-plan result is injected only into the session whose
\* select_topic call requested it: a request that resolves after that
\* session was ended or restarted sends nothing on the channel of a later
\* session.
C23_PlanInjectedInOwnSession ==
  [][ \A i \in 1..MaxActivityTurns :
        PlanInjected(i)
          => \E j \in DOMAIN lessonPlanFetches :
               /\ lessonPlanFetches[j].session = sessionNo
               /\ lessonPlanFetches' = RemoveAt(lessonPlanFetches, j) ]_vars

\* --------------------------------------------------------- topic selector
\* C24: after a confirm_topic_selection call the selector is dismissed once
\* the selection-display timeout has elapsed, also while the one-second tick
\* keeps re-rendering the session view: a render that shows a new
\* elapsedSeconds leaves the pending timeout with the deadline it had.
C24_TickLeavesDisplayTimeout ==
  [][ ( /\ rendered'.elapsedSeconds # rendered.elapsedSeconds
        /\ selectorTimer # -1
        /\ selectorTimer' # -1 )
        => selectorTimer' = selectorTimer ]_vars

\* ------------------------------------------------------------------ phase
\* C25: in every reachable state phase is one of the six pedagogical phases
\* (a transition_phase call whose phase argument is missing or is not one of
\* the six leaves it unchanged).
C25_PhaseAmongTheSix ==
  currentPhase \in TutorialPhase

\* ------------------------------------------------------- presented topics
\* C26: in every reachable state presentedTopics has at most 3 entries, with
\* pairwise distinct option numbers, all in {1,2,3}, also after
\* present_topic_option calls whose number is outside 1..3 or not a number.
C26_AtMostThreeKeyedOneToThree ==
  /\ Len(presentedTopics) <= 3
  /\ \A i \in DOMAIN presentedTopics :
       presentedTopics[i].optionNumber \in OptionNumbers
  /\ \A i, j \in DOMAIN presentedTopics :
       i # j => presentedTopics[i].optionNumber # presentedTopics[j].optionNumber

\* --------------------------------------------------------------- teardown
\* Nothing is held: no channel, stream, connection or audio element, and
\* neither interval is installed.
Released ==
  /\ dataChannelRef = "null"
  /\ localStreamRef = "null"
  /\ ~peerConnectionRef
  /\ audioElementRef = "null"
  /\ ~timerIntervalRef
  /\ ~timeUpdateIntervalRef

\* A step of one of the exit paths: the End button, the automatic end, a
\* failed start, a restart, the disposal of the component.
ExitStep ==
  \/ ClickEnd
  \/ autoEnds' = autoEnds + 1
  \/ StartCredentialFails
  \/ StartMediaFails
  \/ StartSdpFails
  \/ ClickExecuteRestart
  \/ Unmount

\* C27: every exit path runs cleanup, after which the channel, the stream,
\* the peer connection and the audio element are released and both
\* intervals are stopped; and cleanup run on that state changes nothing.
C27_ExitReleasesEverything ==
  [][ /\ ExitStep => Released'
      /\ (Released /\ ExitStep)
           => UNCHANGED << transportVars, timerIntervalRef,
                           timeUpdateIntervalRef >> ]_vars

\* C27 witness: the component was disposed after the session had been ended
\* by its automatic end, so cleanup ran twice, and nothing is held.
C27_DisposedAfterAutoEnd ==
  /\ ~mounted
  /\ autoEnds = 1
  /\ Released

\* C28: if the component is disposed while start is still connecting, then
\* once the pending steps of start have completed nothing remains held.
C28_NothingHeldAfterDisposal ==
  (~mounted /\ startPc = "none") => Released

\* -------------------------------------------------------- session artifact
\* endSession issued its submission in this step.
SubmitStep == persisted' # persisted

\* A topic was selected in the current session: a select_topic call was
\* processed.
TopicWasSelected == selectTitles # << >>

\* C29: the artifact submitted by end() contains the transcript, the skill
\* observations, the open loops, the lesson-plan modifications, the
\* misconceptions, the duration and the final phase, and the selected topic
\* whenever a topic was selected in that session.
C29_ArtifactCarriesSelectedTopic ==
  [][ SubmitStep
        => LET body == SessionEndBody(rendered)
           IN  /\ { "transcript", "skillObservations", "openLoops",
                    "lessonPlanMods", "misconceptions", "duration", "phase" }
                     \subseteq DOMAIN body
               /\ TopicWasSelected => "topicChosen" \in DOMAIN body ]_vars

\* ---------------------------------------------------------- error filter
\* An error event was handled in this step.
ErrorStep == Len(errorLog') = Len(errorLog) + 1

\* The pause side-effect signature.
MatchesPauseSignature(e) ==
  \/ \E i \in DOMAIN e.message :
       e.message[i] \in { "response.cancel", "audio_buffer.clear" }
  \/ e.code = "response_cancel_not_active"

\* C30: while the session is paused, an error event that matches the pause
\* side-effect signature leaves the surfaced error and all session state
\* unchanged, and nothing is sent; an error event that does not match is
\* surfaced: the error cell holds its message, or the fallback text when it
\* has none.
C30_PausedFilterBySignature ==
  [][ (ErrorStep /\ isPaused)
        => LET e == errorLog'[Len(errorLog')].event
           IN  IF MatchesPauseSignature(e)
                 THEN /\ sent' = << >>
                      /\ UNCHANGED << error, reactVars, rendered, isPausedRef,
                                      currentActivityRef, transportVars,
                                      sessionIdRef, skillObservationsRef,
                                      timerVars, startPc, endFetches,
                                      resumeTimers, persisted,
                                      sessionDataVars, lessonPlanFetches >>
                 ELSE /\ error' # NoError
                      /\ e.message # << >> => error' = e.message ]_vars

\* C30 witness: two error events were handled while paused; the first did
\* not match the signature and is shown, the second matched by its code alone
\* and left it in place.
C30_SurfacedThenFiltered ==
  /\ isPaused
  /\ Len(errorLog) = 2
  /\ errorLog[1].paused /\ errorLog[2].paused
  /\ ~MatchesPauseSignature(errorLog[1].event)
  /\ errorLog[2].event = ErrorData(<< >>, "response_cancel_not_active")
  /\ error = errorLog[1].event.message
  /\ error # NoError

\* C31: an engine error caused by the pause's own cancel or buffer-clear
\* requests is not surfaced when it arrives late: an error event that matches
\* the pause side-effect signature and is handled right after a resume, while
\* the 200 ms timeout of that resume is still pending, leaves the error cell
\* as it was.
C31_LatePauseErrorSuppressed ==
  [][ ( /\ ErrorStep
        /\ resumeTimers # << >>
        /\ MatchesPauseSignature(errorLog'[Len(errorLog')].event) )
        => error' = error ]_vars

\* ------------------------------------------------------- dropped frames
\* A frame that does not decode, or whose type is not one the protocol
\* defines a handler for.
Undecodable(f) == ~f.decodes
Unrecognized(f) ==
  /\ f.decodes
  /\ f.type \notin { "session.created", "session.updated", "response.done",
                     "response.output_audio_transcript.delta",
                     "conversation.item.added", "conversation.item.done",
                     "input_audio_buffer.speech_started",
                     "input_audio_buffer.speech_stopped", "error" }

\* A payload-free frame was handled in this step.
FrameStep == Len(frameLog') = Len(frameLog) + 1

\* What a dropped frame must leave alone: every state cell, ref, accumulator
\* and piece of asynchronous work in flight.
DroppedFrameFrame ==
  /\ sent' = << >>
  /\ UNCHANGED << error, reactVars, rendered, isPausedRef, currentActivityRef,
                  transportVars, sessionIdRef, skillObservationsRef,
                  timerVars, startPc, endFetches, resumeTimers, persisted,
                  sessionDataVars, lessonPlanFetches, turns, errorLog >>

\* C32: an inbound frame that fails to decode, or that carries an
\* unrecognized event type, changes no session state and sends nothing.  As
\* the handlers of later frames are enabled by that state alone, every later
\* frame is then processed as it would have been.
C32_DroppedFrameChangesNothing ==
  [][ FrameStep
        => LET f == frameLog'[Len(frameLog')].frame
           IN  (Undecodable(f) \/ Unrecognized(f)) => DroppedFrameFrame ]_vars

\* C32 witness: an undecodable frame and a frame of unknown type were dropped
\* before any error event was handled; afterwards an error event was handled
\* and surfaced, and the session also processed a tool call and recorded a
\* transcript entry.
C32_FramesProcessedAfterDrops ==
  /\ Len(frameLog) = 2
  /\ Undecodable(frameLog[1].frame)
  /\ Unrecognized(frameLog[2].frame)
  /\ frameLog[2].errors = 0
  /\ Len(errorLog) = 1
  /\ error = << "Rate", "limit", "reached" >>
  /\ turns >= 1
  /\ transcript # << >>

\* ------------------------------------------------------- fallback plan
\* C33: when lesson-plan generation for a selected topic returns null, the
\* generic Socratic guidance text is injected into the open control channel
\* as the fallback plan; when it returns a plan with its topic, the rendering
\* of that plan is injected.
C33_NullPlanInjectsGuidance ==
  [][ \A i \in 1..MaxActivityTurns, plan \in GeneratedPlans :
        ( /\ LessonPlanAnswered(i, plan)
          /\ dataChannelRef = "open"
          /\ plan.isNull \/ plan.topic # "" )
          => sent' = << Msg("session.update", 0,
                            IF plan.isNull THEN "generic_socratic_guidance"
                                           ELSE "lesson_plan") >> ]_vars

\* --------------------------------------------------------------- activity
\* The activity the rules give after one tool call: `target` is the phase a
\* transition_phase call asked for.
ActivityByRule(call, target, activity) ==
  CASE call.name = "transition_phase" /\ target = "reflection" -> "reflecting"
    [] call.name = "transition_phase" /\ target = "warm_entry" -> activity
    [] call.name = "transition_phase" -> "discussing"
    [] call.name = "present_topic_option" /\ call.number = 3 ->
         "awaiting_selection"
    [] call.name = "present_topic_option" -> "offering_topics"
    [] call.name = "select_topic" -> "discussing"
    [] OTHER -> activity

\* C34: activity changes only as a byproduct of tool calls and the reset to
\* greeting at session start.  A step that processes one tool call sets it by
\* the rules (reflection: reflecting; a phase other than warm_entry and
\* reflection: discussing; warm_entry: unchanged; present_topic_option:
\* offering_topics, or awaiting_selection for option 3; select_topic:
\* discussing; any other tool: unchanged); a step that starts a session sets
\* greeting; every other step leaves it unchanged.
C34_ActivityFollowsToolCalls ==
  [][ IF Len(turnCalls') = 1 /\ turnCalls'[1].parses
        THEN currentActivity' =
               ActivityByRule(turnCalls'[1], currentPhase', currentActivity)
        ELSE IF sessionNo' # sessionNo
          THEN currentActivity' = "greeting"
          ELSE currentActivity' = currentActivity ]_vars

\* C34 witness: transition_phase(warm_entry) was processed while topics were
\* awaited, and the activity stayed; the session had been paused and resumed
\* and its transcript had grown meanwhile.
C34_WarmEntryKeepsActivity ==
  /\ LastCallIs("transition_phase")
  /\ currentPhase = "warm_entry"
  /\ declaredPhase = "warm_entry"
  /\ turns = 2
  /\ currentActivity = "awaiting_selection"
  /\ transcript # << >>
  /\ userActed

\* ------------------------------------------------------ append-only logs
\* `before` is an initial part of `after`.
IsPrefix(before, after) ==
  /\ Len(before) <= Len(after)
  /\ \A i \in DOMAIN before : after[i] = before[i]

\* C35: within a session each side-information log (skill observations, open
\* loops, visuals, lesson-plan modifications, misconceptions) only grows: no
\* step, a dismissal of the displayed visual included, removes or alters an
\* entry already appended.
C35_LogsOnlyGrow ==
  [][ sessionNo' = sessionNo
        => /\ IsPrefix(skillObservationsRef, skillObservationsRef')
           /\ IsPrefix(openLoopsRef, openLoopsRef')
           /\ IsPrefix(visuals, visuals')
           /\ IsPrefix(lessonPlanModsRef, lessonPlanModsRef')
           /\ IsPrefix(misconceptionsRef, misconceptionsRef') ]_vars

\* C36: no time-remaining broadcast is sent while the session is paused or
\* the channel is not open.  Only the broadcast interval sends one, at its
\* own instants; a tick of it that falls inside a pause, or on a channel that
\* is not open, sends nothing, and no later step sends in its place.
C36_NoBroadcastWhilePaused ==
  [][ /\ TimeUpdateStep
           => /\ TimeUpdateTick
              /\ ~isPaused
              /\ status # "paused"
              /\ dataChannelRef = "open"
      /\ (TimeUpdateTick /\ (isPaused \/ dataChannelRef # "open"))
           => sent' = << >> ]_vars

\* C36 witness: the broadcast interval is due while the session is paused on
\* an open channel, 30 minutes into the session, and nothing has been sent.
C36_TickFallsInsidePause ==
  /\ isPaused
  /\ status = "paused"
  /\ dataChannelRef = "open"
  /\ timeUpdateIntervalRef
  /\ now - IntervalsInstalledAt = 6 * TimeUpdateMs
  /\ sent = << >>

\* ------------------------------------------------------------ failed start
\* The credential fetch, the media acquisition or the signaling exchange of
\* startSession failed in this step.
StartFailureStep ==
  StartCredentialFails \/ StartMediaFails \/ StartSdpFails

\* A failed start is on display and no start is running.
FailedAndIdle == status = "error" /\ startPc = "none"

\* C37: when the credential fetch, the media acquisition or the signaling
\* exchange fails during start, status becomes error with the failure message
\* recorded, every transport resource acquired so far is released and no
\* timer is left running; and while the failure is on display nothing but a
\* start by the user begins a session, acquires a resource or installs a
\* timer.
C37_FailedStartReleasesAndWaits ==
  [][ /\ StartFailureStep
           => /\ status' = "error"
              /\ error' # NoError
              /\ Released'
              /\ startPc' = "none"
      /\ (FailedAndIdle /\ ~ClickStart)
           => UNCHANGED << startPc, transportVars, timerIntervalRef,
                           timeUpdateIntervalRef, sessionNo >> ]_vars

\* C37 witness: the start failed after the credentials had been obtained, the
\* error view is rendered with the message, and nothing is held.
C37_ErrorViewAfterFailedStart ==
  /\ FailedAndIdle
  /\ rendered.status = "error"
  /\ error = ConnectError
  /\ sessionIdRef # 0
  /\ Released
  /\ mounted

\* ------------------------------------------------------------- user items
\* The user entries of the transcript that hold this text.
UserEntriesWith(text) ==
  { k \in DOMAIN transcript :
      transcript[k].role = "user" /\ transcript[k].text = text }

\* C38: each user conversation item with non-blank text is recorded in the
\* transcript exactly once: receiving both conversation.item.added and
\* conversation.item.done for the same item does not record it twice, and an
\* item whose events have all arrived has its entry.
C38_UserItemRecordedOnce ==
  \A i \in DOMAIN UserItems :
    UserItems[i].text # 0
      => /\ Cardinality(UserEntriesWith(UserItems[i].text)) <= 1
         /\ itemStage[i] = "done"
              => Cardinality(UserEntriesWith(UserItems[i].text)) = 1

\* ------------------------------------------------- append-only transcript
\* The step extended the text of the last entry, an assistant entry, and
\* touched nothing else of the transcript.
ExtendsLastEntry ==
  /\ transcript # << >>
  /\ Len(transcript') = Len(transcript)
  /\ \A k \in 1..(Len(transcript) - 1) : transcript'[k] = transcript[k]
  /\ LET last == transcript[Len(transcript)]
         next == transcript'[Len(transcript)]
     IN  /\ last.role = "assistant"
         /\ next.role = "assistant"
         /\ next.timestamp = last.timestamp
         /\ next.text > last.text

\* The step appended one entry at the end.
AppendsOneEntry ==
  /\ Len(transcript') = Len(transcript) + 1
  /\ IsPrefix(transcript, transcript')

\* C39: within a session the transcript is append-only and ordered by
\* arrival: every step leaves it unchanged, extends the text of its last
\* entry (assistant delta), or appends one new entry at the end; no earlier
\* entry is removed, reordered or modified.
C39_TranscriptAppendOnly ==
  [][ sessionNo' = sessionNo
        => \/ transcript' = transcript
           \/ ExtendsLastEntry
           \/ AppendsOneEntry ]_vars

\* C39 witness: a user entry was appended, an assistant entry was appended
\* after it and extended by further deltas, and tool calls were processed.
C39_UserThenExtendedAssistant ==
  /\ Len(transcript) = 2
  /\ transcript[1].role = "user"
  /\ transcript[2].role = "assistant"
  /\ transcript[2].text = MaxDeltas
  /\ turns >= 1

====
